---- MODULE Spec2Model ----
(***************************************************************************)
(* Q-Score engine of the Quossi repository: the deterministic scorer of    *)
(* api/quossi_2_0 (tone, stability, jitter, ranges, trend figures), its    *)
(* per-user memory file and chat batching, and the stabilizing POST of     *)
(* api/qscore-groq (normalizedUnique, quantize, ema, qscores table).       *)
(*                                                                         *)
(* Numbers: the JavaScript code computes in doubles.  The model computes   *)
(* the same expressions in exact integer arithmetic (x * 1.2 becomes       *)
(* 12 * x over 10, Math.round becomes round-half-up).  The two agree       *)
(* except where the exact value is a tie (k + 1/2): there the double may   *)
(* fall just below the tie.  emaDouble lists both outcomes for such ties.  *)
(***************************************************************************)
EXTENDS Integers, Sequences, FiniteSets, TLC

\* null or undefined where an object is expected
NULL == [null |-> TRUE]
\* null where a number is expected, and the number NaN
NullNum == 0 - 1
NaN == 0 - 2

Max(a, b) == IF a >= b THEN a ELSE b
Min(a, b) == IF a <= b THEN a ELSE b
Abs(a) == IF a >= 0 THEN a ELSE 0 - a

\* Math.trunc(a / b) for b > 0: rounds toward zero
Trunc(a, b) == IF a >= 0 THEN a \div b ELSE 0 - ((0 - a) \div b)

\* Math.round(a / b) for a >= 0, b > 0: round half up
Round(a, b) == (2 * a + b) \div (2 * b)

RECURSIVE SumSeq(_)
SumSeq(s) == IF s = <<>> THEN 0 ELSE Head(s) + SumSeq(Tail(s))

(***************************************************************************)
(* Core ranges and configuration                                           *)
(***************************************************************************)
RANGES ==
  << [name |-> "Storm",  low |-> 100, high |-> 199, archetype |-> "The Reactor"],
     [name |-> "Ground", low |-> 200, high |-> 299, archetype |-> "The Builder"],
     [name |-> "Flow",   low |-> 300, high |-> 399, archetype |-> "The Surfer"],
     [name |-> "Gold",   low |-> 400, high |-> 499, archetype |-> "The Strategist"],
     [name |-> "Sun",    low |-> 500, high |-> 600, archetype |-> "The Oracle"] >>

ROLLING_WINDOW == 10
SLOPE_WINDOW == 7

\* Object.keys(EMOTION_WEIGHTS) in declaration order
ToneOrder == << "anxious", "positive", "high-energy", "neutral" >>
ToneSet == { ToneOrder[i] : i \in 1..Len(ToneOrder) }

BASE_BY_TONE ==
  [t \in ToneSet |->
     CASE t = "anxious" -> 150
       [] t = "neutral" -> 250
       [] t = "positive" -> 350
       [] t = "high-energy" -> 400]

(***************************************************************************)
(* A message text is represented by what the scorer reads from it:         *)
(*   kw[t]   sum of weight * occurrences of the keywords of tone t         *)
(*           (tokenCounts + the weights loop of analyzeTone)               *)
(*   exclam  number of '!'          quest    number of '?'                 *)
(*   caps    number of [A-Z]        repeats  number of runs (.)\1{2,}      *)
(*   len     text.length                                                   *)
(*   hi, lo  the two 16-bit halves of parseInt(md5hex.slice(0, 8), 16)     *)
(***************************************************************************)
Features(kw, exclam, quest, caps, repeats, len, hi, lo) ==
  [kw |-> kw, exclam |-> exclam, quest |-> quest, caps |-> caps,
   repeats |-> repeats, len |-> len, hi |-> hi, lo |-> lo]

toneScores(f) ==
  [t \in ToneSet |->
     f.kw[t]
     + (IF t = "anxious" THEN Trunc(f.exclam * 5, 10) ELSE 0)
     + (IF t = "high-energy" THEN Trunc(Max(0, f.caps - 8) * 2, 10) ELSE 0)]

\* the last entry in declaration order among the highest wins
analyzeToneLastWins(f) ==
  LET scores == toneScores(f)
      best == CHOOSE i \in 1..Len(ToneOrder) :
                /\ \A j \in 1..Len(ToneOrder) : scores[ToneOrder[j]] <= scores[ToneOrder[i]]
                /\ \A j \in (i + 1)..Len(ToneOrder) : scores[ToneOrder[j]] < scores[ToneOrder[i]]
  IN IF \A t \in ToneSet : scores[t] = 0 THEN "neutral" ELSE ToneOrder[best]

\* Object.entries(scores).sort((a, b) => b[1] - a[1])[0][0]: the sort is
\* stable, so the first entry in declaration order among the highest wins
analyzeTone(f) ==
  LET scores == toneScores(f)
      best == CHOOSE i \in 1..Len(ToneOrder) :
                /\ \A j \in 1..Len(ToneOrder) : scores[ToneOrder[j]] <= scores[ToneOrder[i]]
                /\ \A j \in 1..(i - 1) : scores[ToneOrder[j]] < scores[ToneOrder[i]]
  IN IF \A t \in ToneSet : scores[t] = 0 THEN "neutral" ELSE ToneOrder[best]

\* 100 - normalized without Math.max(0, ...)
emotionalStabilityUnbounded(f) ==
  LET length == Max(1, f.len)
      exclamQ == f.exclam + f.quest
      raw10 == exclamQ * 12 + Max(0, f.caps - 10) * 5 + f.repeats * 20
  IN 100 - Round(36 * raw10, 120 + length)

\* rawInstability * 10 = exclamQ * 12 + max(0, caps - 10) * 5 + repeats * 20
\* normalized * 3 = 36 * raw10 / (120 + length)
emotionalStability(f) ==
  LET length == Max(1, f.len)
      exclamQ == f.exclam + f.quest
      raw10 == exclamQ * 12 + Max(0, f.caps - 10) * 5 + f.repeats * 20
  IN Max(0, 100 - Round(36 * raw10, 120 + length))

\* parseInt(h.slice(0, 8), 16) % span - 15, the 32-bit value kept as
\* hi * 65536 + lo
deterministicJitter(f) ==
  LET span == 31
      v == (((f.hi % span) * (65536 % span)) + (f.lo % span)) % span
  IN v - 15

clamp(x, lo, hi) == Max(lo, Min(hi, x))

\* Math.floor((stability - 50) / 2)
stabilityAdjustFloor(stability) == (stability - 50) \div 2

\* Math.trunc((stability - 50) / 2)
stabilityAdjust(stability) == Trunc(stability - 50, 2)

\* the score on a scale that starts at 0
calculateQScoreZeroBased(f) ==
  LET adjusted == BASE_BY_TONE[analyzeTone(f)] + Trunc(emotionalStability(f) - 50, 2)
                  + deterministicJitter(f)
  IN clamp(adjusted - 100, 0, 500)

calculateQScore(f) ==
  LET tone == analyzeTone(f)
      stability == emotionalStability(f)
      base == BASE_BY_TONE[tone]
      adjusted == base + stabilityAdjust(stability) + deterministicJitter(f)
  IN clamp(adjusted, 100, 600)

UnknownRange == [name |-> "Unknown", archetype |-> "-"]

\* qscore > low in place of qscore >= low
assignRangeExclusive(qscore) ==
  IF \E i \in 1..Len(RANGES) : qscore > RANGES[i].low /\ qscore <= RANGES[i].high
  THEN LET i == CHOOSE k \in 1..Len(RANGES) :
                  qscore > RANGES[k].low /\ qscore <= RANGES[k].high
       IN [name |-> RANGES[i].name, archetype |-> RANGES[i].archetype]
  ELSE UnknownRange

assignRange(qscore) ==
  IF \E i \in 1..Len(RANGES) : qscore >= RANGES[i].low /\ qscore <= RANGES[i].high
  THEN LET i == CHOOSE k \in 1..Len(RANGES) :
                  /\ qscore >= RANGES[k].low /\ qscore <= RANGES[k].high
                  /\ \A j \in 1..(k - 1) : ~(qscore >= RANGES[j].low /\ qscore <= RANGES[j].high)
       IN [name |-> RANGES[i].name, archetype |-> RANGES[i].archetype]
  ELSE UnknownRange

(***************************************************************************)
(* Trend figures over a window of scores                                   *)
(***************************************************************************)
\* the slope is the fraction num / den; 0.0 is num = 0, den = 1
linearSlope(y) ==
  LET n == Len(y)
      xSum == ((n - 1) * n) \div 2
      x2Sum == ((n - 1) * n * (2 * n - 1)) \div 6
      ySum == SumSeq(y)
      xySum == SumSeq([i \in 1..n |-> (i - 1) * y[i]])
      denom == n * x2Sum - xSum * xSum
  IN IF n < 2 THEN [num |-> 0, den |-> 1]
     ELSE IF denom = 0 THEN [num |-> 0, den |-> 1]
     ELSE [num |-> n * xySum - xSum * ySum, den |-> denom]

\* Math.round(Math.sqrt(v)) with v = (n * sum(x^2) - sum(x)^2) / n^2:
\* the r with (2r - 1)^2 * n^2 <= 4 * (n * sum(x^2) - sum(x)^2) < (2r + 1)^2 * n^2
popStdDev(nums) ==
  LET n == Len(nums)
      s1 == SumSeq(nums)
      s2 == SumSeq([i \in 1..n |-> nums[i] * nums[i]])
      v4 == 4 * (n * s2 - s1 * s1)
  IN IF n < 2 THEN NullNum
     ELSE CHOOSE r \in 0..300 :
            /\ (r = 0 \/ (2 * r - 1) * (2 * r - 1) * n * n <= v4)
            /\ v4 < (2 * r + 1) * (2 * r + 1) * n * n

weightedMainQscore(scores) ==
  LET n == Len(scores)
      num == SumSeq([i \in 1..n |-> scores[i] * i])
      den == SumSeq([i \in 1..n |-> i])
  IN IF n = 0 THEN NullNum ELSE Round(num, den)

stepOf(diff) == IF diff > 0 THEN "up" ELSE IF diff < 0 THEN "down" ELSE "steady"

\* the loop of streakDirection from index i down to 1 (TLA+ indexes from 1)
RECURSIVE streakLoop(_, _, _, _)
streakLoop(scores, i, direction, length) ==
  IF i <= 1 THEN << direction, length >>
  ELSE LET step == stepOf(scores[i] - scores[i - 1])
       IN IF direction = "steady" THEN streakLoop(scores, i - 1, step, 1)
          ELSE IF step = direction /\ step # "steady"
               THEN streakLoop(scores, i - 1, direction, length + 1)
               ELSE << direction, length >>

\* steady with length 1 as soon as the two most recent scores are equal
streakDirectionLatestPair(scores) ==
  IF Len(scores) < 2 \/ scores[Len(scores)] = scores[Len(scores) - 1]
  THEN << "steady", 1 >>
  ELSE streakLoop(scores, Len(scores), "steady", 1)

streakDirection(scores) ==
  IF Len(scores) < 2 THEN << "steady", 1 >>
  ELSE streakLoop(scores, Len(scores), "steady", 1)

\* arr.slice(-k)
LastN(s, k) == IF Len(s) <= k THEN s ELSE SubSeq(s, Len(s) - k + 1, Len(s))

(***************************************************************************)
(* Message texts.  A text is one of the strings below; TEXT gives what the *)
(* regular expressions and the md5 digest of the code yield for it.        *)
(*   dtone, impulse, aware: detectTone, detectImpulse, detectSelfAwareness *)
(*   key: m.toLowerCase().replace(/\s+/g, " ").trim()                      *)
(***************************************************************************)
NoKw == [t \in ToneSet |-> 0]

TextRow(kw, exclam, caps, repeats, len, hi, lo, dtone, impulse, aware, key) ==
  [kw |-> kw, exclam |-> exclam, quest |-> 0, caps |-> caps, repeats |-> repeats,
   len |-> len, hi |-> hi, lo |-> lo,
   dtone |-> dtone, impulse |-> impulse, aware |-> aware, key |-> key]

Strings ==
  { "hi there", "HI THERE", "hi   there", "I am so anxious and scared, panic!!",
    "calm and confident", "I realized I had to go all in", "   ", "" }

TEXT ==
  [s \in Strings |->
     CASE s = "hi there" ->
            TextRow(NoKw, 0, 0, 0, 8, 64819, 58088, "neutral", 0, 0, "hi there")
       [] s = "HI THERE" ->
            TextRow(NoKw, 0, 7, 0, 8, 23948, 34842, "neutral", 0, 0, "hi there")
       [] s = "hi   there" ->
            TextRow(NoKw, 0, 0, 1, 10, 45239, 31077, "neutral", 0, 0, "hi there")
       [] s = "I am so anxious and scared, panic!!" ->
            TextRow([NoKw EXCEPT !["anxious"] = 9], 2, 1, 0, 35, 4055, 50111,
                    "anxious", 1, 0, "i am so anxious and scared, panic!!")
       [] s = "calm and confident" ->
            TextRow([NoKw EXCEPT !["positive"] = 6], 0, 0, 0, 18, 6747, 65040,
                    "positive", 0, 0, "calm and confident")
       [] s = "I realized I had to go all in" ->
            TextRow(NoKw, 0, 2, 0, 29, 38112, 42918, "neutral", 1, 1,
                    "i realized i had to go all in")
       [] s = "   " ->
            TextRow(NoKw, 0, 0, 1, 3, 25222, 12784, "neutral", 0, 0, "")
       [] s = "" ->
            TextRow(NoKw, 0, 0, 0, 0, 54301, 36057, "neutral", 0, 0, "")]

\* s.trim() is empty
IsBlank(s) == TEXT[s].key = ""

\* parts.join(" | ") of non-blank trimmed strings, as the scorer reads it.
\* Counts add up, the separator adds 3 characters and no keyword, capital
\* or run.  The md5 digest of the joined text is a fixed function of the
\* text; for one part it is that string's digest, for several parts it is
\* represented by a position-weighted sum of the parts' digests.
joined(parts) ==
  LET n == Len(parts)
      col(F(_)) == SumSeq([i \in 1..n |-> F(TEXT[parts[i]])])
      kwOf(t) == SumSeq([i \in 1..n |-> TEXT[parts[i]].kw[t]])
      exclamF(x) == x.exclam
      questF(x) == x.quest
      capsF(x) == x.caps
      repeatsF(x) == x.repeats
      lenF(x) == x.len
  IN IF n = 0
     THEN Features(NoKw, 0, 0, 0, 0, 0, TEXT[""].hi, TEXT[""].lo)
     ELSE Features([t \in ToneSet |-> kwOf(t)], col(exclamF), col(questF), col(capsF),
                   col(repeatsF), col(lenF) + 3 * (n - 1),
                   SumSeq([i \in 1..n |-> i * TEXT[parts[i]].hi]) % 65536,
                   SumSeq([i \in 1..n |-> i * TEXT[parts[i]].lo]) % 65536)

(***************************************************************************)
(* User ids are strings over a small alphabet, kept as sequences of        *)
(* characters so that trim and replace can be computed.                    *)
(***************************************************************************)
\* the characters of the class [a-zA-Z0-9_\-] that the model's ids use
WordChars ==
  { "a", "b", "c", "d", "e", "f", "l", "m", "n", "o", "s", "t", "u", "y", "_", "-" }

DefaultUser == << "d", "e", "f", "a", "u", "l", "t" >>

RECURSIVE trimLeft(_)
trimLeft(u) == IF u # <<>> /\ Head(u) = " " THEN trimLeft(Tail(u)) ELSE u

RECURSIVE trimRight(_)
trimRight(u) ==
  IF u # <<>> /\ u[Len(u)] = " " THEN trimRight(SubSeq(u, 1, Len(u) - 1)) ELSE u

trim(u) == trimRight(trimLeft(u))

\* (u || "default").trim().replace(/[^a-zA-Z0-9_\-]/g, "_")
safeUser(u) ==
  LET t == trim(IF u = <<>> THEN DefaultUser ELSE u)
  IN [i \in 1..Len(t) |-> IF t[i] \in WordChars THEN t[i] ELSE "_"]

\* the file name quossi_memory_<safeUser>.json stands for the path
memoryPath(user) == safeUser(user)

\* data.user || headers["x-quossi-user"] || "default"
resolveUser(u) == IF u = <<>> THEN DefaultUser ELSE u

(***************************************************************************)
(* State                                                                   *)
(***************************************************************************)
VARIABLES
  file,      \* memoryPath -> contents of the memory file, or NoFile
  sbOn,      \* supabaseCfg() yields a url and a key
  sbState,   \* user -> qscore_state.memory of the row of that user, or NULL
  sbHist,    \* user -> rows of qscore_history of that user, oldest first
  qscores,   \* user_id -> data of the row in table qscores, or NULL
  req,       \* request slot -> the handler's position, locals and response
  posts,     \* number of requests received so far
  arg,       \* the input of a function call, or the drawn threshold of a run
  ret,       \* the result of the function call
  userLocks, \* api/chat: userId -> the call whose promise the map holds, or 0
  calls,     \* api/chat: the calls of withUserLock, in call order
  hits,      \* api/chat: ip -> { count, ts } of throttle
  now,       \* Date.now()
  user_state,  \* userId -> system_sent of the row of table user_state
  chat,      \* api/chat: request slot -> the POST's position and locals
  lastComputedUserTurns  \* api/qscore: userId -> user turns at the last result

routeVars == << userLocks, calls, hits, now, user_state, chat, lastComputedUserTurns >>

engineVars == << file, sbOn, sbState, sbHist, qscores, req, posts >>

vars == << file, sbOn, sbState, sbHist, qscores, req, posts, arg, ret, routeVars >>

NoFile == [enoent |-> TRUE]

Slots == { 1, 2 }

\* loadMemory's catch branch: { user, history: [] }
EmptyMemory == [history |-> <<>>, chat_state |-> NULL]

NoResp == [status |-> 0]

IdleReq ==
  [pc |-> "idle", kind |-> "", uid |-> <<>>, user |-> <<>>, input |-> NULL,
   message |-> "", combined |-> <<>>,
   mem |-> NULL, count |-> 0, threshold |-> 0, out |-> NULL, previous |-> NullNum,
   resp |-> NoResp]

Free(r) == req[r].pc \in { "idle", "done" }

\* typed JSON values of the request body
Str(s) == [type |-> "string", value |-> s]
Num(n) == [type |-> "number", value |-> n]
Arr(items) == [type |-> "array", items |-> items]
Missing == [type |-> "undefined"]

(***************************************************************************)
(* Memory file and Supabase REST helpers                                   *)
(***************************************************************************)
\* an exception that leaves the function
Threw == [threw |-> TRUE]

\* readFile + JSON.parse without the try / catch around them
loadMemoryNoCatch(user, ok) ==
  IF ok /\ file[memoryPath(user)] # NoFile THEN file[memoryPath(user)] ELSE Threw

\* readFile + JSON.parse, or the catch branch when the read fails
loadMemory(user, ok) ==
  IF ok /\ file[memoryPath(user)] # NoFile THEN file[memoryPath(user)] ELSE EmptyMemory

\* the file after saveMemory(user, memory); a failed write is ignored
saveMemory(user, memory, ok) ==
  IF ok THEN [file EXCEPT ![memoryPath(user)] = memory] ELSE file

\* rows[0].memory, or null without configuration, on a failed call or no row
supabaseFetchStateMemory(user, ok) ==
  IF sbOn /\ ok THEN sbState[user] ELSE NULL

\* qscore_state after the upsert; httpJson swallows every failure
supabaseUpsertState(user, memory, ok) ==
  IF sbOn /\ ok THEN [sbState EXCEPT ![user] = memory] ELSE sbState

supabaseInsertHistory(user, row, ok) ==
  IF sbOn /\ ok THEN [sbHist EXCEPT ![user] = Append(@, row)] ELSE sbHist

\* the memory the chat branch reads for a user when every call succeeds
persisted(user) ==
  LET sb == supabaseFetchStateMemory(user, TRUE)
  IN IF sb # NULL THEN sb ELSE loadMemory(user, TRUE)

(***************************************************************************)
(* computeSummary                                                          *)
(***************************************************************************)
ScoreRecord(message, qscore, tone) ==
  [message |-> message, qscore |-> qscore, tone |-> tone]

updateMemoryObj(memory, message, qscore, tone) ==
  [memory EXCEPT !.history = Append(@, ScoreRecord(message, qscore, tone))]

\* a jitter that changes from request to request is added to the score
computeSummarySalted(message, preMem) ==
  LET f == joined(message)
      tone == analyzeTone(f)
      qscore == clamp(calculateQScore(f) + (posts % 31), 100, 600)
      qrange == assignRange(qscore)
  IN [tone |-> tone, qscore |-> qscore, range |-> qrange,
      main_qscore |-> qscore,
      trend_slope |-> linearSlope(<< qscore >>),
      volatility |-> NullNum,
      streak |-> [direction |-> "steady", length |-> 1]]

\* message: the parts of the joined text; preMem: the memory option
computeSummary(message, preMem) ==
  LET f == joined(message)
      tone == analyzeTone(f)
      qscore == calculateQScore(f)
      qrange == assignRange(qscore)
      mem0 == IF preMem = NULL THEN EmptyMemory ELSE preMem
      mem == updateMemoryObj(mem0, message, qscore, tone)
      recent == LastN([i \in 1..Len(mem.history) |-> mem.history[i].qscore], ROLLING_WINDOW)
      streak == streakDirection(recent)
  IN [tone |-> tone, qscore |-> qscore, range |-> qrange,
      main_qscore |-> weightedMainQscore(recent),
      trend_slope |-> linearSlope(LastN(recent, SLOPE_WINDOW)),
      volatility |-> popStdDev(recent),
      streak |-> [direction |-> streak[1], length |-> streak[2]]]

(***************************************************************************)
(* POST /api/quossi_2_0, chat branch (data.chat || data.event === "chat")  *)
(* One action per stretch of code between two awaits.  ok* tell whether    *)
(* the store call of that stretch succeeds; th is the value drawn by       *)
(* 15 + Math.floor(Math.random() * 6).                                     *)
(***************************************************************************)
Thresholds == 15..20

\* count <= threshold in place of count < threshold
stillQueuedInclusive(count, threshold) == count <= threshold

\* the test of the queued branch
stillQueued(count, threshold) == count < threshold

\* a chat message is rejected only when it is not a string
InvalidChatMessageNoTrim(m) == m.type # "string"

\* typeof chatMsg !== "string" || !chatMsg.trim()
InvalidChatMessage(m) == m.type # "string" \/ IsBlank(m.value)

Respond(r, status, body) ==
  [req EXCEPT ![r].pc = "done", ![r].resp = [status |-> status, body |-> body]]

\* the catch of module.exports: send(res, 500, ...)
Caught(r) == Respond(r, 500, [error |-> "exception"])

ChatPost(r, u, m) ==
  /\ Free(r)
  /\ posts' = posts + 1
  /\ LET fresh == [IdleReq EXCEPT !.kind = "chat", !.uid = resolveUser(u),
                                 !.user = resolveUser(u), !.input = m]
     IN IF InvalidChatMessage(m)
        THEN req' = [req EXCEPT ![r] =
                       [fresh EXCEPT !.pc = "done",
                                     !.resp = [status |-> 400, body |-> [error |-> "Invalid chat message"]]]]
        ELSE req' = [req EXCEPT ![r] = [fresh EXCEPT !.pc = "chat_load", !.message = m.value]]
  /\ UNCHANGED << file, sbOn, sbState, sbHist, qscores, arg, ret, routeVars >>

\* the buffer holds the latest message only
bufferPushLatestOnly(buffer, chatMsg) == << chatMsg >>

\* buffer.push(chatMsg.trim())
bufferPush(buffer, chatMsg) == Append(buffer, chatMsg)

\* mem = (await supabaseFetchStateMemory(user)) || (await loadMemory(user)),
\* then the counting up to the branch on count < threshold
ChatLoad(r, okSb, okFile, th) ==
  /\ req[r].pc = "chat_load"
  /\ LET user == req[r].user
         sb == supabaseFetchStateMemory(user, okSb)
         mem == IF sb # NULL THEN sb ELSE loadMemory(user, okFile)
         cs == mem.chat_state
         count0 == IF cs = NULL THEN 0 ELSE cs.count
         threshold0 == IF cs = NULL THEN 0 ELSE cs.threshold
         buffer0 == IF cs = NULL THEN <<>> ELSE cs.buffer
         threshold == IF threshold0 < 15 \/ threshold0 > 20 THEN th ELSE threshold0
         buffer == bufferPush(buffer0, req[r].message)
         count == count0 + 1
         combined == SelectSeq(buffer, LAMBDA x : ~IsBlank(x))
     IN IF mem = Threw
        THEN req' = Caught(r)
        ELSE IF stillQueued(count, threshold)
        THEN req' = [req EXCEPT ![r].pc = "chat_save",
                                ![r].count = count, ![r].threshold = threshold,
                                ![r].mem = [mem EXCEPT !.chat_state =
                                              [count |-> count, threshold |-> threshold,
                                               buffer |-> buffer]]]
        ELSE req' = [req EXCEPT ![r].pc = "flush_load",
                                ![r].count = count, ![r].threshold = threshold,
                                ![r].combined = combined,
                                ![r].out = computeSummary(combined, NULL)]
  /\ UNCHANGED << file, sbOn, sbState, sbHist, qscores, posts, arg, ret, routeVars >>

\* await saveMemory(user, mem) of the queued branch
ChatSave(r, ok) ==
  /\ req[r].pc = "chat_save"
  /\ file' = saveMemory(req[r].user, req[r].mem, ok)
  /\ req' = [req EXCEPT ![r].pc = "chat_upsert"]
  /\ UNCHANGED << sbOn, sbState, sbHist, qscores, posts, arg, ret, routeVars >>

\* supabaseUpsertState({ user, memory: mem, ... }) and the 202 response
ChatUpsert(r, ok) ==
  /\ req[r].pc = "chat_upsert"
  /\ sbState' = supabaseUpsertState(req[r].user, req[r].mem, ok)
  /\ req' = Respond(r, 202, [status |-> "queued", count |-> req[r].count,
                             threshold |-> req[r].threshold])
  /\ UNCHANGED << file, sbOn, sbHist, qscores, posts, arg, ret, routeVars >>

\* freshMem = (await supabaseFetchStateMemory(user)) || (await loadMemory(user))
\* and the reset of its chat_state
FlushLoad(r, okSb, okFile, th) ==
  /\ req[r].pc = "flush_load"
  /\ LET user == req[r].user
         sb == supabaseFetchStateMemory(user, okSb)
         freshMem == IF sb # NULL THEN sb ELSE loadMemory(user, okFile)
     IN IF freshMem = Threw
        THEN req' = Caught(r)
        ELSE req' = [req EXCEPT ![r].pc = "flush_save",
                                ![r].mem = [freshMem EXCEPT !.chat_state =
                                              [count |-> 0, threshold |-> th, buffer |-> <<>>]]]
  /\ UNCHANGED << file, sbOn, sbState, sbHist, qscores, posts, arg, ret, routeVars >>

\* await saveMemory(user, freshMem)
FlushSave(r, ok) ==
  /\ req[r].pc = "flush_save"
  /\ file' = saveMemory(req[r].user, req[r].mem, ok)
  /\ req' = [req EXCEPT ![r].pc = "flush_insert"]
  /\ UNCHANGED << sbOn, sbState, sbHist, qscores, posts, arg, ret, routeVars >>

\* await supabaseInsertHistory({ user, message: combined, qscore, tone })
FlushInsert(r, ok) ==
  /\ req[r].pc = "flush_insert"
  /\ sbHist' = supabaseInsertHistory(req[r].user,
                  ScoreRecord(req[r].combined, req[r].out.qscore, req[r].out.tone), ok)
  /\ req' = [req EXCEPT ![r].pc = "flush_upsert"]
  /\ UNCHANGED << file, sbOn, sbState, qscores, posts, arg, ret, routeVars >>

\* await supabaseUpsertState({ user, memory: freshMem, summary: out }) and
\* the 200 response that carries out
FlushUpsert(r, ok) ==
  /\ req[r].pc = "flush_upsert"
  /\ sbState' = supabaseUpsertState(req[r].user, req[r].mem, ok)
  /\ req' = Respond(r, 200, req[r].out)
  /\ UNCHANGED << file, sbOn, sbHist, qscores, posts, arg, ret, routeVars >>

(***************************************************************************)
(* POST /api/quossi_2_0, form answers branch                               *)
(***************************************************************************)
\* !Array.isArray(answers) || !answers.every((x) => typeof x === "string")
InvalidAnswers(a) ==
  a.type # "array" \/ \E i \in 1..Len(a.items) : a.items[i].type # "string"

\* answers.map((a) => (a || "").trim()).filter(Boolean), the parts of message
answerParts(a) ==
  SelectSeq([i \in 1..Len(a.items) |-> a.items[i].value], LAMBDA x : ~IsBlank(x))

AnswersPost(r, u, a) ==
  /\ Free(r)
  /\ posts' = posts + 1
  /\ LET fresh == [IdleReq EXCEPT !.kind = "answers", !.uid = resolveUser(u),
                                 !.user = resolveUser(u), !.input = a]
     IN IF InvalidAnswers(a)
        THEN req' = [req EXCEPT ![r] =
                       [fresh EXCEPT !.pc = "done",
                                     !.resp = [status |-> 400, body |-> [error |-> "Invalid payload"]]]]
        ELSE req' = [req EXCEPT ![r] =
                       [fresh EXCEPT !.pc = "ans_insert",
                                     !.combined = answerParts(a),
                                     !.out = computeSummary(answerParts(a), NULL)]]
  /\ UNCHANGED << file, sbOn, sbState, sbHist, qscores, arg, ret, routeVars >>

AnswersInsert(r, ok) ==
  /\ req[r].pc = "ans_insert"
  /\ sbHist' = supabaseInsertHistory(req[r].user,
                  ScoreRecord(req[r].combined, req[r].out.qscore, req[r].out.tone), ok)
  /\ req' = [req EXCEPT ![r].pc = "ans_upsert"]
  /\ UNCHANGED << file, sbOn, sbState, qscores, posts, arg, ret, routeVars >>

\* memNow = await loadMemory(user); await supabaseUpsertState(...), both in
\* the try whose catch is empty; send 200
AnswersUpsert(r, okFile, okSb) ==
  /\ req[r].pc = "ans_upsert"
  /\ LET memNow == loadMemory(req[r].user, okFile)
     IN sbState' = IF memNow = Threw THEN sbState
                   ELSE supabaseUpsertState(req[r].user, memNow, okSb)
  /\ req' = Respond(r, 200, req[r].out)
  /\ UNCHANGED << file, sbOn, sbHist, qscores, posts, arg, ret, routeVars >>

(***************************************************************************)
(* Behavioral engine (lib/quossiEngine) used by the stabilizing POST       *)
(***************************************************************************)
\* composite * 100 * n, clamped to [0, 100 * n]; NaN for no messages
\* (impulses.length / messages.length is 0 / 0)
analyzeMessages(messages) ==
  LET n == Len(messages)
      uniqueTones == { TEXT[messages[i]].dtone : i \in 1..n }
      pos == Len(SelectSeq(messages, LAMBDA m : TEXT[m].dtone = "positive"))
      neu == Len(SelectSeq(messages, LAMBDA m : TEXT[m].dtone = "neutral"))
      neg == Len(SelectSeq(messages, LAMBDA m : TEXT[m].dtone \in { "anxious", "over-confident" }))
      imp == Len(SelectSeq(messages, LAMBDA m : TEXT[m].impulse = 1))
      awr == Len(SelectSeq(messages, LAMBDA m : TEXT[m].aware = 1))
      stability100n == 10 * n * Max(0, 4 - Cardinality(uniqueTones))
      composite100n == stability100n + 3 * (10 * pos + 8 * neu - 5 * neg)
                       + 25 * awr + 15 * (n - imp)
  IN IF n = 0 THEN NaN ELSE Min(100 * n, Max(0, composite100n))

engineRange(qScore) ==
  IF qScore # NaN /\ \E i \in 1..Len(RANGES) : qScore >= RANGES[i].low /\ qScore <= RANGES[i].high
  THEN RANGES[CHOOSE i \in 1..Len(RANGES) : qScore >= RANGES[i].low /\ qScore <= RANGES[i].high]
  ELSE RANGES[1]

\* Math.round(100 + ratio * 500) with ratio = analyzeMessages / (100 * n)
computeQScore(messages) ==
  LET ratio100n == analyzeMessages(messages)
      qScore == IF ratio100n = NaN THEN NaN
                ELSE 100 + Round(5 * ratio100n, Len(messages))
      range == engineRange(qScore)
  IN [qScore |-> qScore, range |-> range.name, archetype |-> range.archetype]

\* the result for an empty list: QScoreResult's "safe default", and the
\* result of the rubric POST when no message is left
DefaultResult == [qScore |-> 250, range |-> "Ground", archetype |-> "The Builder"]

\* QScoreResult(input) for a list of strings, which is taken as it is
QScoreResult(messages) ==
  IF Len(messages) = 0 THEN DefaultResult ELSE computeQScore(messages)

(***************************************************************************)
(* Stabilizing POST (api/qscore-groq): helpers                             *)
(***************************************************************************)
Anonymous == << "a", "n", "o", "n", "y", "m", "o", "u", "s" >>

\* body?.userId || body?.user || ... || "anonymous"
firstId(u) == IF u = <<>> THEN Anonymous ELSE u

\* u.replace(/[^a-zA-Z0-9_-]/g, "_") of the first id given
getUserId(u) ==
  LET v == firstId(u)
  IN [i \in 1..Len(v) |-> IF v[i] \in WordChars THEN v[i] ELSE "_"]

\* BodySchema.parse: answers, when present, is an array of strings
InvalidBody(a) ==
  a.type # "undefined" /\ InvalidAnswers(a)

\* the answers shape: strings with s.trim() !== "", untrimmed
normalizeToStrings(a) ==
  IF a.type = "array"
  THEN SelectSeq([i \in 1..Len(a.items) |-> a.items[i].value], LAMBDA x : ~IsBlank(x))
  ELSE <<>>

RECURSIVE uniqueLoop(_, _, _)
uniqueLoop(msgs, seen, out) ==
  IF msgs = <<>> THEN out
  ELSE LET m == Head(msgs)
           k == TEXT[m].key
       IN IF k \notin seen
          THEN uniqueLoop(Tail(msgs), seen \cup { k }, Append(out, m))
          ELSE uniqueLoop(Tail(msgs), seen, out)

\* the lines are compared as they are, not by their normalized form
normalizedUniqueExact(msgs) ==
  LET F[i \in 0..Len(msgs)] ==
        IF i = 0 THEN <<>>
        ELSE IF \E j \in 1..(i - 1) : msgs[j] = msgs[i] THEN F[i - 1]
             ELSE Append(F[i - 1], msgs[i])
  IN F[Len(msgs)]

normalizedUnique(msgs) == uniqueLoop(msgs, {}, <<>>)

\* q <= 200 in place of q < 200, and so on
quantizeInclusive(q) ==
  IF q # NaN /\ q <= 200 THEN 150
  ELSE IF q # NaN /\ q <= 300 THEN 250
  ELSE IF q # NaN /\ q <= 400 THEN 350
  ELSE IF q # NaN /\ q <= 500 THEN 450
  ELSE 550

\* every comparison with NaN is false, so NaN falls through to 550
quantize(q) ==
  IF q # NaN /\ q < 200 THEN 150
  ELSE IF q # NaN /\ q < 300 THEN 250
  ELSE IF q # NaN /\ q < 400 THEN 350
  ELSE IF q # NaN /\ q < 500 THEN 450
  ELSE 550

Midpoints == { 150, 250, 350, 450, 550 }

\* weights that do not add up to 1: last * 0.7 + current * 0.7
emaWrongWeight(current, last) ==
  IF last = NullNum THEN current ELSE Round(7 * last + 7 * current, 10)

\* Math.floor in place of Math.round
emaFloor(current, last) ==
  IF last = NullNum THEN current ELSE (7 * last + 3 * current) \div 10

\* alpha = 0.3: Math.round(last * 0.7 + current * 0.3), exactly
ema(current, last) ==
  IF last = NullNum THEN current ELSE Round(7 * last + 3 * current, 10)

\* The results the double evaluation of ema can give.  It is the exact one
\* unless last * 0.7 + current * 0.3 is a tie k + 1/2, where the double sum
\* may come out below the tie and round to k; for current at a band
\* midpoint and last in 100..600 the double sum has been compared with the
\* exact one and never does.
emaDouble(current, last) ==
  IF last # NullNum /\ (7 * last + 3 * current) % 10 = 5 /\ current \notin Midpoints
  THEN { ema(current, last) - 1, ema(current, last) }
  ELSE { ema(current, last) }

\* the band of the POST handler; NaN falls through to "Sun"
bandOf(q) ==
  IF q # NaN /\ q < 200 THEN "Storm"
  ELSE IF q # NaN /\ q < 300 THEN "Ground"
  ELSE IF q # NaN /\ q < 400 THEN "Flow"
  ELSE IF q # NaN /\ q < 500 THEN "Gold"
  ELSE "Sun"

rangeMap ==
  [b \in { "Storm", "Ground", "Flow", "Gold", "Sun" } |->
     CASE b = "Storm" -> "The Reactor"
       [] b = "Ground" -> "The Builder"
       [] b = "Flow" -> "The Surfer"
       [] b = "Gold" -> "The Strategist"
       [] b = "Sun" -> "The Oracle"]

\* data?.data || null; null as well when the query reports an error
fetchResult(user, ok) == IF ok THEN qscores[user] ELSE NULL

\* the table after the upsert; an error is only logged
storeResult(user, data, ok) == IF ok THEN [qscores EXCEPT ![user] = data] ELSE qscores

(***************************************************************************)
(* Stabilizing POST: the handler                                           *)
(***************************************************************************)
\* body parse, getUserId, normalize, computeQScore, quantize
StabPost(r, u, a) ==
  /\ Free(r)
  /\ posts' = posts + 1
  /\ LET fresh == [IdleReq EXCEPT !.kind = "stab", !.uid = firstId(u),
                                 !.user = getUserId(u), !.input = a]
         messages == normalizedUnique(normalizeToStrings(a))
         result == computeQScore(messages)
     IN IF InvalidBody(a)
        THEN req' = [req EXCEPT ![r] =
                       [fresh EXCEPT !.pc = "done",
                                     !.resp = [status |-> 400, body |-> [error |-> "Invalid request"]]]]
        ELSE req' = [req EXCEPT ![r] =
                       [fresh EXCEPT !.pc = "stab_fetch",
                                     !.combined = messages,
                                     !.out = [result EXCEPT !.qScore = quantize(result.qScore)]]]
  /\ UNCHANGED << file, sbOn, sbState, sbHist, qscores, arg, ret, routeVars >>

\* previous = await fetchResult(user); ema; band and archetype re-derived
\* the response keeps the range and archetype computed before smoothing
StabFetchKeepsBand(r, ok) ==
  /\ req[r].pc = "stab_fetch"
  /\ LET previous == fetchResult(req[r].user, ok)
         last == IF previous = NULL THEN NullNum ELSE previous.qScore
     IN \E q \in emaDouble(req[r].out.qScore, last) :
          req' = [req EXCEPT ![r].pc = "stab_store",
                             ![r].previous = last,
                             ![r].out = [qScore |-> q, range |-> req[r].out.range,
                                         archetype |-> req[r].out.archetype]]
  /\ UNCHANGED << file, sbOn, sbState, sbHist, qscores, posts, arg, ret, routeVars >>

StabFetch(r, ok) ==
  /\ req[r].pc = "stab_fetch"
  /\ LET previous == fetchResult(req[r].user, ok)
         last == IF previous = NULL THEN NullNum ELSE previous.qScore
     IN \E q \in emaDouble(req[r].out.qScore, last) :
          req' = [req EXCEPT ![r].pc = "stab_store",
                             ![r].previous = last,
                             ![r].out = [qScore |-> q, range |-> bandOf(q),
                                         archetype |-> rangeMap[bandOf(q)]]]
  /\ UNCHANGED << file, sbOn, sbState, sbHist, qscores, posts, arg, ret, routeVars >>

\* await storeResult(user, result); NextResponse.json(result)
StabStore(r, ok) ==
  /\ req[r].pc = "stab_store"
  /\ qscores' = storeResult(req[r].user, req[r].out, ok)
  /\ req' = Respond(r, 200, req[r].out)
  /\ UNCHANGED << file, sbOn, sbState, sbHist, posts, arg, ret, routeVars >>

(***************************************************************************)
(* Rubric POST (api/qscore-groq/route.ts): the score comes from the model, *)
(* from computeQScore when the model call fails, and is the default when   *)
(* no message is left                                                      *)
(***************************************************************************)
\* results that pass isValidResult
ModelResults ==
  { [qScore |-> q, range |-> bandOf(q), archetype |-> rangeMap[bandOf(q)]] : q \in { 100, 345, 600 } }

\* body parse, getUserId, normalizeToStrings and the branch on !messages.length
RubricPost(r, u, a) ==
  /\ Free(r)
  /\ posts' = posts + 1
  /\ LET fresh == [IdleReq EXCEPT !.kind = "rubric", !.uid = firstId(u),
                                 !.user = getUserId(u), !.input = a]
         messages == normalizeToStrings(a)
     IN IF InvalidBody(a)
        THEN req' = [req EXCEPT ![r] =
                       [fresh EXCEPT !.pc = "done",
                                     !.resp = [status |-> 400, body |-> [error |-> "Invalid request"]]]]
        ELSE IF Len(messages) = 0
        THEN req' = [req EXCEPT ![r] = [fresh EXCEPT !.pc = "rubric_store", !.out = DefaultResult]]
        ELSE req' = [req EXCEPT ![r] = [fresh EXCEPT !.pc = "rubric_model", !.combined = messages]]
  /\ UNCHANGED << file, sbOn, sbState, sbHist, qscores, arg, ret, routeVars >>

\* result = await callModel(messages), or computeQScore(messages) when the
\* call throws
RubricModel(r, reply) ==
  /\ req[r].pc = "rubric_model"
  /\ req' = [req EXCEPT ![r].pc = "rubric_store",
                        ![r].out = IF reply = Threw THEN computeQScore(req[r].combined)
                                   ELSE reply]
  /\ UNCHANGED << file, sbOn, sbState, sbHist, qscores, posts, arg, ret, routeVars >>

\* await storeResult(user, result); NextResponse.json(result)
RubricStore(r, ok) ==
  /\ req[r].pc = "rubric_store"
  /\ qscores' = storeResult(req[r].user, req[r].out, ok)
  /\ req' = Respond(r, 200, req[r].out)
  /\ UNCHANGED << file, sbOn, sbState, sbHist, posts, arg, ret, routeVars >>

(***************************************************************************)
(* POST of the route in front of the handler: validation, proxyToPython    *)
(* and the fallback.  The backend is the handler above.                    *)
(***************************************************************************)
\* resp.ok
respOk(resp) == resp.status \in 200..299

\* fetch throws when the backend cannot be reached; proxyToPython throws
\* when the response is not ok
proxyToPython(reached, resp) == IF reached /\ respOk(resp) THEN resp ELSE Threw

\* the exception of proxyToPython leaves POST
formResponseNoCatch(p) ==
  IF p = Threw THEN [status |-> 500, body |-> [error |-> "exception"]] ELSE p

\* try { return await proxyToPython(req, body) } catch { return json({}, 200) }
formResponse(p) == IF p = Threw THEN [status |-> 200, body |-> [empty |-> TRUE]] ELSE p

\* what the fetch of proxyToPython meets
Backend == { "up", "down", "refused" }

\* POST: answers must be an array of strings
FormPost(r, u, a) ==
  /\ Free(r)
  /\ posts' = posts + 1
  /\ LET fresh == [IdleReq EXCEPT !.kind = "form", !.uid = resolveUser(u),
                                 !.user = resolveUser(u), !.input = a]
     IN IF InvalidAnswers(a)
        THEN req' = [req EXCEPT ![r] =
                       [fresh EXCEPT !.pc = "done",
                                     !.resp = [status |-> 400, body |-> [error |-> "Invalid payload"]]]]
        ELSE req' = [req EXCEPT ![r] = [fresh EXCEPT !.pc = "proxy"]]
  /\ UNCHANGED << file, sbOn, sbState, sbHist, qscores, arg, ret, routeVars >>

\* the fetch of proxyToPython: it fails, it is answered with an error
\* status, or the backend starts on the answers
ProxyCall(r, backend) ==
  /\ req[r].pc = "proxy"
  /\ LET a == req[r].input
         answered == formResponse(proxyToPython(backend = "refused",
                                                [status |-> 404, body |-> [error |-> "not found"]]))
     IN IF backend = "up"
        THEN req' = [req EXCEPT ![r].pc = "ans_insert",
                                ![r].combined = answerParts(a),
                                ![r].out = computeSummary(answerParts(a), NULL)]
        ELSE req' = Respond(r, answered.status, answered.body)
  /\ UNCHANGED << file, sbOn, sbState, sbHist, qscores, posts, arg, ret, routeVars >>

\* the last step of the backend and the return of POST
FormReturn(r, okFile, okSb) ==
  /\ req[r].pc = "ans_upsert"
  /\ req[r].kind = "form"
  /\ LET memNow == loadMemory(req[r].user, okFile)
     IN sbState' = IF memNow = Threw THEN sbState
                   ELSE supabaseUpsertState(req[r].user, memNow, okSb)
  /\ LET answered == formResponse(proxyToPython(TRUE, [status |-> 200, body |-> req[r].out]))
     IN req' = Respond(r, answered.status, answered.body)
  /\ UNCHANGED << file, sbOn, sbHist, qscores, posts, arg, ret, routeVars >>

(***************************************************************************)
(* api/chat: withUserLock.  A promise is "pending", "fulfilled" or         *)
(* "rejected".  calls lists the calls of withUserLock in call order.  The  *)
(* promise that call k puts into userLocks is                              *)
(* prev.then(() => next).catch(() => next): prev is the promise put there  *)
(* by call calls[k].prev (0: Promise.resolve()), next is fulfilled by      *)
(* release().  A call without userId runs fn at once and takes no lock.    *)
(***************************************************************************)
NoUserId == ""
LockIds == { "ann", "bob" }
Outcomes == { "returned", "threw" }

\* p.then(() => q)
thenP(p, q) ==
  IF p = "pending" THEN "pending" ELSE IF p = "rejected" THEN "rejected" ELSE q

\* p.catch(() => q)
catchP(p, q) ==
  IF p = "pending" THEN "pending" ELSE IF p = "rejected" THEN q ELSE p

\* next = new Promise((res) => (release = res))
nextOf(call) == IF call.released THEN "fulfilled" ELSE "pending"

\* the state of the promise that call k has put into userLocks
RECURSIVE lockPromise(_, _)
lockPromise(cs, k) ==
  IF k = 0 THEN "fulfilled"
  ELSE LET prev == lockPromise(cs, cs[k].prev)
           next == nextOf(cs[k])
       IN catchP(thenP(prev, next), next)

lockPrevNone(userId) == 0

\* prev = userLocks.get(userId) ?? Promise.resolve()
lockPrev(userId) == userLocks[userId]

releaseOnReturn(outcome) == outcome = "returned"

\* finally { release() }: next is fulfilled however fn has settled
release(outcome) == TRUE

NewCall(userId) ==
  IF userId = NoUserId
  THEN [userId |-> userId, prev |-> 0, pc |-> "fn", ran |-> TRUE,
        released |-> FALSE, outcome |-> ""]
  ELSE [userId |-> userId, prev |-> lockPrev(userId), pc |-> "await", ran |-> FALSE,
        released |-> FALSE, outcome |-> ""]

\* withUserLock(userId, fn) up to its first await: if (!userId) return fn();
\* otherwise userLocks.set(userId, ...) and await prev
WithUserLock(userId) ==
  /\ calls' = Append(calls, NewCall(userId))
  /\ userLocks' = IF userId = NoUserId THEN userLocks
                  ELSE [userLocks EXCEPT ![userId] = Len(calls) + 1]
  /\ UNCHANGED << engineVars, arg, ret, hits, now, user_state, chat, lastComputedUserTurns >>

\* await prev is over: return await fn(); a rejected prev would go straight
\* to the finally block
LockResume(k) ==
  /\ k \in 1..Len(calls)
  /\ calls[k].pc = "await"
  /\ LET p == lockPromise(calls, calls[k].prev)
     IN /\ p # "pending"
        /\ calls' = IF p = "fulfilled"
                    THEN [calls EXCEPT ![k].pc = "fn", ![k].ran = TRUE]
                    ELSE [calls EXCEPT ![k].pc = "settled", ![k].outcome = "threw",
                                       ![k].released = release("threw")]
  /\ UNCHANGED << engineVars, arg, ret, userLocks, hits, now, user_state, chat,
                  lastComputedUserTurns >>

\* fn() settles, then the finally block
FnSettle(k, outcome) ==
  /\ k \in 1..Len(calls)
  /\ calls[k].pc = "fn"
  /\ calls' = [calls EXCEPT ![k].pc = "settled", ![k].outcome = outcome,
                            ![k].released = (calls[k].userId # NoUserId /\ release(outcome))]
  /\ UNCHANGED << engineVars, arg, ret, userLocks, hits, now, user_state, chat,
                  lastComputedUserTurns >>

(***************************************************************************)
(* api/chat: POST.  One action per stretch of code between two awaits.     *)
(* chat[r].sent lists the model calls of the request in the order they are *)
(* made: the key index, whether messages holds the system prompt, and the  *)
(* status of the reply (0: in flight, 200: a completion, otherwise the     *)
(* code that callOpenAIWithKey derives from the error).                    *)
(***************************************************************************)
\* the environment variables OPENAI_API_KEY_1, _2, _3 and OPENAI_API_KEY
KeySlots == 4

\* e?.status ?? e?.response?.status ?? 500 of the errors of a model call
Codes == { 401, 429, 500 }

NoChatResp == [status |-> 0]

Ips == { "ip1", "ip2" }

\* hits.get(ip) is undefined
NoHit == [count |-> 0, ts |-> 0 - 1]

IdleChat ==
  [pc |-> "idle", ip |-> "", userId |-> NoUserId, keys |-> 0, systemSent |-> FALSE,
   call |-> 0, i |-> 0, attempt |-> 0, sent |-> << >>, resp |-> NoChatResp]

ChatFree(r) == chat[r].pc \in { "idle", "done" }

windowOverInclusive(rec, t) == t - rec.ts >= 60000

\* now - rec.ts > windowMs
windowOver(rec, t) == t - rec.ts > 60000

\* throttle(ip): the map after the call and the value returned
throttle(ip) ==
  LET rec0 == IF hits[ip] = NoHit THEN [count |-> 0, ts |-> now] ELSE hits[ip]
      rec1 == IF windowOver(rec0, now) THEN [count |-> 0, ts |-> now] ELSE rec0
      rec == [rec1 EXCEPT !.count = @ + 1]
  IN [hits |-> [hits EXCEPT ![ip] = rec], ok |-> rec.count <= 20]

\* retriable of callOpenAIWithKey
retriable(code) ==
  code = 429 \/ code >= 500 \/ code = 408 \/ code = 425 \/ code = 524 \/ code = 400

giveUpAfterThree(code, late, attempt) == ~retriable(code) \/ late \/ attempt >= 3

\* !retriable || elapsed >= perKeyTimeCapMs || attempt >= 2: the error goes
\* to the loop over the keys; late is elapsed >= perKeyTimeCapMs
giveUp(code, late, attempt) == ~retriable(code) \/ late \/ attempt >= 2

\* getUserState(userId).catch(() => null)
getUserState(userId, ok) == IF ok THEN user_state[userId] ELSE NULL

\* the upsert of markSystemSent; the caller swallows its error
markSystemSent(userId, ok) ==
  IF ok THEN [user_state EXCEPT ![userId] = [system_sent |-> TRUE]] ELSE user_state

\* the upsert of saveSummary: a new row has no system_sent, a row that is
\* there keeps its own
saveSummary(userId, ok) ==
  IF ok /\ user_state[userId] = NULL
  THEN [user_state EXCEPT ![userId] = [system_sent |-> FALSE]]
  ELSE user_state

\* a model call with key i is made
modelCall(c, i, attempt) ==
  [c EXCEPT !.pc = "model", !.i = i, !.attempt = attempt,
            !.sent = Append(@, [key |-> i, system |-> ~c.systemSent, status |-> 0])]

\* the reply to the call in flight
replied(c, status) == [c EXCEPT !.sent[Len(c.sent)].status = status]

\* fn of withUserLock has returned its response: finally { release() }
settled(cs, k) ==
  [cs EXCEPT ![k].pc = "settled", ![k].outcome = "returned",
             ![k].released = (cs[k].userId # NoUserId /\ release("returned"))]

chatDone(c, resp) == [c EXCEPT !.pc = "done", !.resp = resp]

\* POST up to its first await after the body has been read: origin, throttle,
\* keys, JSON and message checks; without a userId withUserLock runs fn at
\* once and the first model call is made
ChatRoutePost(r, originOk, ip, n, body) ==
  /\ ChatFree(r)
  /\ posts' = posts + 1
  /\ LET fresh == [IdleChat EXCEPT !.ip = ip, !.userId = body.userId, !.keys = n]
         t == throttle(ip)
         refused ==
           IF ~originOk THEN 403
           ELSE IF ~t.ok THEN 429
           ELSE IF n = 0 THEN 500
           ELSE IF ~body.json \/ IsBlank(body.message) THEN 400
           ELSE 0
     IN /\ hits' = IF originOk THEN t.hits ELSE hits
        /\ IF refused # 0
           THEN /\ chat' = [chat EXCEPT ![r] = chatDone(fresh, [status |-> refused])]
                /\ calls' = calls
           ELSE IF body.userId # NoUserId
           THEN /\ chat' = [chat EXCEPT ![r] = [fresh EXCEPT !.pc = "state"]]
                /\ calls' = calls
           ELSE /\ chat' = [chat EXCEPT ![r] =
                              modelCall([fresh EXCEPT !.call = Len(calls) + 1], 0, 1)]
                /\ calls' = Append(calls, NewCall(NoUserId))
  /\ UNCHANGED << file, sbOn, sbState, sbHist, qscores, req, arg, ret,
                  userLocks, now, user_state, lastComputedUserTurns >>

\* st = await getUserState(userId).catch(() => null); messages is built with
\* or without the system prompt; withUserLock(userId, fn) up to await prev
ChatState(r, ok) ==
  /\ chat[r].pc = "state"
  /\ LET st == getUserState(chat[r].userId, ok)
         systemSent == st # NULL /\ st.system_sent
     IN chat' = [chat EXCEPT ![r].pc = "lock", ![r].systemSent = systemSent,
                             ![r].call = Len(calls) + 1]
  /\ calls' = Append(calls, NewCall(chat[r].userId))
  /\ userLocks' = [userLocks EXCEPT ![chat[r].userId] = Len(calls) + 1]
  /\ UNCHANGED << engineVars, arg, ret, hits, now, user_state, lastComputedUserTurns >>

\* await prev is over: fn starts and makes the model call with keys[0]
ChatLock(r) ==
  /\ chat[r].pc = "lock"
  /\ lockPromise(calls, calls[chat[r].call].prev) = "fulfilled"
  /\ calls' = [calls EXCEPT ![chat[r].call].pc = "fn", ![chat[r].call].ran = TRUE]
  /\ chat' = [chat EXCEPT ![r] = modelCall(chat[r], 0, 1)]
  /\ UNCHANGED << engineVars, arg, ret, userLocks, hits, now, user_state,
                  lastComputedUserTurns >>

\* the model call in flight settles with status 200 or with an error of the
\* given code: the retry with the same key, the next key, or the response
ChatModel(r, status, late) ==
  /\ chat[r].pc = "model"
  /\ LET c == replied(chat[r], status)
     IN IF status = 200
        THEN IF c.userId = NoUserId
             THEN /\ chat' = [chat EXCEPT ![r] =
                                chatDone(c, [status |-> 200, key_index |-> c.i,
                                             attempt |-> c.attempt])]
                  /\ calls' = settled(calls, c.call)
             ELSE /\ chat' = [chat EXCEPT ![r] =
                                [c EXCEPT !.pc = IF c.systemSent THEN "summary" ELSE "mark"]]
                  /\ calls' = calls
        ELSE IF ~giveUp(status, late, c.attempt)
        THEN /\ chat' = [chat EXCEPT ![r] = modelCall(c, c.i, c.attempt + 1)]
             /\ calls' = calls
        ELSE IF c.i + 1 < c.keys
        THEN /\ chat' = [chat EXCEPT ![r] = modelCall(c, c.i + 1, 1)]
             /\ calls' = calls
        ELSE /\ chat' = [chat EXCEPT ![r] = chatDone(c, [status |-> status])]
             /\ calls' = settled(calls, c.call)
  /\ UNCHANGED << engineVars, arg, ret, userLocks, hits, now, user_state,
                  lastComputedUserTurns >>

\* await markSystemSent(userId).catch(() => {})
ChatMark(r, ok) ==
  /\ chat[r].pc = "mark"
  /\ user_state' = markSystemSent(chat[r].userId, ok)
  /\ chat' = [chat EXCEPT ![r].pc = "summary"]
  /\ UNCHANGED << engineVars, arg, ret, userLocks, calls, hits, now,
                  lastComputedUserTurns >>

\* await saveSummary(userId, newSum).catch(() => {}); the response with the
\* key index; finally { release() }
ChatSummary(r, ok) ==
  /\ chat[r].pc = "summary"
  /\ user_state' = saveSummary(chat[r].userId, ok)
  /\ chat' = [chat EXCEPT ![r] =
                chatDone(chat[r], [status |-> 200, key_index |-> chat[r].i,
                                   attempt |-> chat[r].attempt])]
  /\ calls' = settled(calls, chat[r].call)
  /\ UNCHANGED << engineVars, arg, ret, userLocks, hits, now, lastComputedUserTurns >>

\* time passes
Tick(d) ==
  /\ now' = now + d
  /\ UNCHANGED << engineVars, arg, ret, userLocks, calls, hits, user_state, chat,
                  lastComputedUserTurns >>

(***************************************************************************)
(* api/qscore: POST.  A history is given by its numbers of user and of     *)
(* assistant turns; the handler has no await between the gate and the      *)
(* response.                                                               *)
(***************************************************************************)
MIN_USER_TURNS == 10
REFRESH_EVERY_USER_TURNS == 10

TurnIds == LockIds \cup { "anonymous" }

NoHistory == [given |-> FALSE, user |-> 0, assistant |-> 0]

\* history.filter((m) => m.role === "user").length of history || []
countUserTurns(history) == IF history.given THEN history.user ELSE 0

gatingAllowFirstOnly(userId, history) ==
  countUserTurns(history) >= MIN_USER_TURNS

\* gatingAllow(userId, history).allowed
gatingAllow(userId, history) ==
  LET uTurns == countUserTurns(history)
      last == lastComputedUserTurns[userId]
  IN IF uTurns < MIN_USER_TURNS THEN FALSE
     ELSE IF uTurns - last < REFRESH_EVERY_USER_TURNS THEN FALSE
     ELSE TRUE

\* buildAnalysisText(history, message).text is not empty
hasAnalysisText(history, message) ==
  IF history.given /\ history.user + history.assistant > 0 THEN TRUE
  ELSE ~IsBlank(message)

\* POST: body.userId || "anonymous", the gate, the analysis (which throws or
\* not), lastComputedUserTurns.set and the response
QscorePost(id, history, message, okAnalysis) ==
  /\ LET userId == IF id = NoUserId THEN "anonymous" ELSE id
         allowed == gatingAllow(userId, history)
         uTurns == countUserTurns(history)
         status == IF ~hasAnalysisText(history, message) THEN 400
                   ELSE IF ~okAnalysis THEN 500 ELSE 200
     IN /\ ret' = [done |-> TRUE, op |-> "qscore", userId |-> userId, uTurns |-> uTurns,
                   last |-> lastComputedUserTurns[userId], status |-> status,
                   allowed |-> (status = 200 /\ allowed),
                   result |-> (status = 200 /\ allowed)]
        /\ lastComputedUserTurns' =
             IF status = 200 /\ allowed
             THEN [lastComputedUserTurns EXCEPT ![userId] = uTurns]
             ELSE lastComputedUserTurns
  /\ UNCHANGED << engineVars, arg, userLocks, calls, hits, now, user_state, chat >>

(***************************************************************************)
(* The state of the routes api/chat and api/qscore before any request      *)
(***************************************************************************)
RouteIdle ==
  /\ userLocks = [u \in LockIds |-> 0]
  /\ calls = << >>
  /\ hits = [ip \in Ips |-> NoHit]
  /\ now = 0
  /\ user_state = [u \in LockIds |-> NULL]
  /\ chat = [r \in Slots |-> IdleChat]
  /\ lastComputedUserTurns = [u \in TurnIds |-> 0]

(***************************************************************************)
(* Calls of the pure functions                                             *)
(***************************************************************************)
NoArg == [op |-> "none"]
NoRet == [done |-> FALSE]

\* calculateQScore(message), with the values it is built from
Score ==
  /\ arg.op = "score"
  /\ ret = NoRet
  /\ ret' = [done |-> TRUE,
             tone |-> analyzeTone(arg.f),
             stability |-> emotionalStability(arg.f),
             jitter |-> deterministicJitter(arg.f),
             qscore |-> calculateQScore(arg.f)]
  /\ UNCHANGED << file, sbOn, sbState, sbHist, qscores, req, posts, arg, routeVars >>

\* ema(current, last)
Smooth ==
  /\ arg.op = "ema"
  /\ ret = NoRet
  /\ \E q \in emaDouble(arg.current, arg.last) : ret' = [done |-> TRUE, smoothed |-> q]
  /\ UNCHANGED << file, sbOn, sbState, sbHist, qscores, req, posts, arg, routeVars >>

\* normalizedUnique(msgs)
Unique ==
  /\ arg.op = "unique"
  /\ ret = NoRet
  /\ ret' = [done |-> TRUE, out |-> normalizedUnique(arg.msgs)]
  /\ UNCHANGED << file, sbOn, sbState, sbHist, qscores, req, posts, arg, routeVars >>

\* base + Math.trunc((stability - 50) / 2) of calculateQScore
Adjust ==
  /\ arg.op = "adjust"
  /\ ret = NoRet
  /\ ret' = [done |-> TRUE,
             adjusted |-> BASE_BY_TONE[arg.tone] + stabilityAdjust(arg.stability)]
  /\ UNCHANGED << file, sbOn, sbState, sbHist, qscores, req, posts, arg, routeVars >>

\* streakDirection(scores)
Streak ==
  /\ arg.op = "streak"
  /\ ret = NoRet
  /\ ret' = [done |-> TRUE,
             direction |-> streakDirection(arg.scores)[1],
             length |-> streakDirection(arg.scores)[2]]
  /\ UNCHANGED << file, sbOn, sbState, sbHist, qscores, req, posts, arg, routeVars >>

\* the range classifications of the engine, applied to one score
Classify ==
  /\ arg.op = "range"
  /\ ret = NoRet
  /\ ret' = [done |-> TRUE,
             range |-> assignRange(arg.q),
             engine |-> engineRange(arg.q).name,
             quantized |-> quantize(arg.q),
             requantized |-> quantize(quantize(arg.q)),
             band |-> bandOf(arg.q)]
  /\ UNCHANGED << file, sbOn, sbState, sbHist, qscores, req, posts, arg, routeVars >>

\* await QScoreResult(messages)
Result ==
  /\ arg.op = "result"
  /\ ret = NoRet
  /\ ret' = [done |-> TRUE, result |-> QScoreResult(arg.messages)]
  /\ UNCHANGED << file, sbOn, sbState, sbHist, qscores, req, posts, arg, routeVars >>

(***************************************************************************)
(* Inputs and bounds                                                       *)
(***************************************************************************)
MaxKw == 3
MaxPunct == 40
MaxCaps == 48
MaxPosts == 2
MaxFailPosts == 2
MaxRacePosts == 2
MaxSeqPosts == 22
Margin == 10
MaxWindow == 5
MaxTotal == 3
MaxStabPosts == 1
MaxLines == 3
MaxTwicePosts == 3
MaxFormPosts == 2
MaxCalls == 4
MaxEmptyPosts == 2
MaxStatePosts == 22
MaxConvergePosts == 17
MaxKeyPosts == 1
MaxThrottlePosts == 22
MaxNow == 60001
MaxTurns == 21
MaxPromptPosts == 3

UA == << "a", "@", "b" >>
UB == << "a", "_", "b" >>
Users == { UA, UB, <<>> }

FileKeys == { memoryPath(resolveUser(u)) : u \in Users }
SbUsers == { resolveUser(u) : u \in Users }
StabKeys == { getUserId(u) : u \in Users }

\* a text of len characters can hold these counts
Realisable(f) ==
  /\ f.exclam + f.quest + f.caps <= f.len
  /\ 3 * f.repeats <= f.len
  /\ (\E t \in ToneSet : f.kw[t] > 0) => f.len >= 2

\* lengths are odd, so that normalized * 3 is never a tie
FeatureInputs ==
  { f \in [kw : [ToneSet -> { 0, MaxKw }], exclam : { 0, 1, 4, MaxPunct }, quest : { 0, 3 },
           caps : { 0, 9, 13, MaxCaps }, repeats : { 0, 2 }, len : { 0, 1, 35, 121 },
           hi : { 0, 65535 }, lo : { 0, 30, 50111 }] : Realisable(f) }

ChatInputs == { Str("hi there"), Str("calm and confident"), Str("   "), Num(42) }

AnswersInputs ==
  { Arr(<< Str("calm and confident") >>),
    Arr(<< Str("I am so anxious and scared, panic!!"), Str("   ") >>),
    Arr(<< Num(42) >>), Missing }

StabInputs ==
  { Arr(<< Str("calm and confident") >>),
    Arr(<< Str("I am so anxious and scared, panic!!") >>),
    Missing, Num(42) }

\* a memory file that 14 queued chat events of a run with threshold 15 leave
NearFlush ==
  [history |-> <<>>,
   chat_state |-> [count |-> 14, threshold |-> 15, buffer |-> [i \in 1..14 |-> "hi there"]]]

StoresInit ==
  /\ sbState = [u \in SbUsers |-> NULL]
  /\ sbHist = [u \in SbUsers |-> <<>>]
  /\ qscores = [u \in StabKeys |-> NULL]
  /\ req = [r \in Slots |-> IdleReq]
  /\ posts = 0

(***************************************************************************)
(* The steps of the handlers, for the request slots S, the store outcomes  *)
(* OK ({TRUE}: every store call succeeds; BOOLEAN: any call may fail) and  *)
(* the inputs of a specification                                           *)
(***************************************************************************)
DoChatPost(S, U, M, bound) == \E r \in S, u \in U, m \in M : posts < bound /\ ChatPost(r, u, m)
DoChatLoad(S, OK) == \E r \in S, okSb \in OK, okFile \in OK, th \in Thresholds : ChatLoad(r, okSb, okFile, th)
DoChatSave(S, OK) == \E r \in S, ok \in OK : ChatSave(r, ok)
DoChatUpsert(S, OK) == \E r \in S, ok \in OK : ChatUpsert(r, ok)
DoFlushLoad(S, OK) == \E r \in S, okSb \in OK, okFile \in OK, th \in Thresholds : FlushLoad(r, okSb, okFile, th)
DoFlushSave(S, OK) == \E r \in S, ok \in OK : FlushSave(r, ok)
DoFlushInsert(S, OK) == \E r \in S, ok \in OK : FlushInsert(r, ok)
DoFlushUpsert(S, OK) == \E r \in S, ok \in OK : FlushUpsert(r, ok)
DoAnswersPost(S, U, A, bound) == \E r \in S, u \in U, a \in A : posts < bound /\ AnswersPost(r, u, a)
DoAnswersInsert(S, OK) == \E r \in S, ok \in OK : AnswersInsert(r, ok)
DoAnswersUpsert(S, OK) == \E r \in S, okFile \in OK, okSb \in OK : AnswersUpsert(r, okFile, okSb)
DoStabPost(S, U, A, bound) == \E r \in S, u \in U, a \in A : posts < bound /\ StabPost(r, u, a)
DoStabFetch(S, OK) == \E r \in S, ok \in OK : StabFetch(r, ok)
DoStabStore(S, OK) == \E r \in S, ok \in OK : StabStore(r, ok)

Working == { TRUE }

DoFormPost(S, U, A, bound) == \E r \in S, u \in U, a \in A : posts < bound /\ FormPost(r, u, a)
DoProxyCall(S, B) == \E r \in S, b \in B : ProxyCall(r, b)
DoFormReturn(S, OK) == \E r \in S, okFile \in OK, okSb \in OK : FormReturn(r, okFile, okSb)

DoWithUserLock(U, bound) == \E u \in U : Len(calls) < bound /\ WithUserLock(u)
DoLockResume == \E k \in 1..Len(calls) : LockResume(k)
DoFnSettle(O) == \E k \in 1..Len(calls), o \in O : FnSettle(k, o)

DoRubricPost(S, U, A, bound) == \E r \in S, u \in U, a \in A : posts < bound /\ RubricPost(r, u, a)
DoRubricModel(S, M) == \E r \in S, m \in M : RubricModel(r, m)
DoRubricStore(S, OK) == \E r \in S, ok \in OK : RubricStore(r, ok)

DoChatRoutePost(S, O, I, K, B, bound) ==
  \E r \in S, o \in O, ip \in I, n \in K, b \in B : posts < bound /\ ChatRoutePost(r, o, ip, n, b)
DoChatState(S, OK) == \E r \in S, ok \in OK : ChatState(r, ok)
DoChatLock(S) == \E r \in S : ChatLock(r)
DoChatModel(S, R, L) == \E r \in S, status \in R, late \in L : ChatModel(r, status, late)
DoChatMark(S, OK) == \E r \in S, ok \in OK : ChatMark(r, ok)
DoChatSummary(S, OK) == \E r \in S, ok \in OK : ChatSummary(r, ok)
DoTick(D, bound) == \E d \in D : now + d <= bound /\ Tick(d)

(***************************************************************************)
(* Spec: requests of all three kinds and of all users, handled one at a    *)
(* time, the store working                                                 *)
(***************************************************************************)
Init ==
  /\ RouteIdle
  /\ file \in [FileKeys -> { NoFile, NearFlush }]
  /\ sbOn \in BOOLEAN
  /\ StoresInit
  /\ arg = NoArg
  /\ ret = NoRet

Next ==
  \/ DoChatPost({ 1 }, Users, ChatInputs, MaxPosts)
  \/ DoChatLoad({ 1 }, Working)
  \/ DoChatSave({ 1 }, Working)
  \/ DoChatUpsert({ 1 }, Working)
  \/ DoFlushLoad({ 1 }, Working)
  \/ DoFlushSave({ 1 }, Working)
  \/ DoFlushInsert({ 1 }, Working)
  \/ DoFlushUpsert({ 1 }, Working)
  \/ DoAnswersPost({ 1 }, Users, AnswersInputs, MaxPosts)
  \/ DoAnswersInsert({ 1 }, Working)
  \/ DoAnswersUpsert({ 1 }, Working)
  \/ DoStabPost({ 1 }, Users, StabInputs, MaxPosts)
  \/ DoStabFetch({ 1 }, Working)
  \/ DoStabStore({ 1 }, Working)

Spec == Init /\ [][Next]_vars

(***************************************************************************)
(* SpecFail: as Spec for one user, every store call may fail               *)
(***************************************************************************)
FailUsers == { <<>> }

InitFail == Init

NextFail ==
  \/ DoChatPost({ 1 }, FailUsers, ChatInputs, MaxFailPosts)
  \/ DoChatLoad({ 1 }, BOOLEAN)
  \/ DoChatSave({ 1 }, BOOLEAN)
  \/ DoChatUpsert({ 1 }, BOOLEAN)
  \/ DoFlushLoad({ 1 }, BOOLEAN)
  \/ DoFlushSave({ 1 }, BOOLEAN)
  \/ DoFlushInsert({ 1 }, BOOLEAN)
  \/ DoFlushUpsert({ 1 }, BOOLEAN)
  \/ DoAnswersPost({ 1 }, FailUsers, AnswersInputs, MaxFailPosts)
  \/ DoAnswersInsert({ 1 }, BOOLEAN)
  \/ DoAnswersUpsert({ 1 }, BOOLEAN)
  \/ DoStabPost({ 1 }, FailUsers, StabInputs, MaxFailPosts)
  \/ DoStabFetch({ 1 }, BOOLEAN)
  \/ DoStabStore({ 1 }, BOOLEAN)

SpecFail == InitFail /\ [][NextFail]_vars

(***************************************************************************)
(* SpecRace: two handlers of one user in flight, the store working         *)
(***************************************************************************)
RaceUsers == { UB }
RaceChat == { Str("hi there"), Str("calm and confident") }
RaceStab ==
  { Arr(<< Str("calm and confident") >>),
    Arr(<< Str("I am so anxious and scared, panic!!") >>) }

InitRace == Init

NextRace ==
  \/ DoChatPost(Slots, RaceUsers, RaceChat, MaxRacePosts)
  \/ DoChatLoad(Slots, Working)
  \/ DoChatSave(Slots, Working)
  \/ DoChatUpsert(Slots, Working)
  \/ DoFlushLoad(Slots, Working)
  \/ DoFlushSave(Slots, Working)
  \/ DoFlushInsert(Slots, Working)
  \/ DoFlushUpsert(Slots, Working)
  \/ DoStabPost(Slots, RaceUsers, RaceStab, MaxRacePosts)
  \/ DoStabFetch(Slots, Working)
  \/ DoStabStore(Slots, Working)

SpecRace == InitRace /\ [][NextRace]_vars

(***************************************************************************)
(* SpecBatch: the chat events of one user, one at a time, the store        *)
(* working, from a chat state with count 0 and the drawn threshold         *)
(* arg.threshold                                                           *)
(***************************************************************************)
BatchUser == << "c" >>
BatchChat == { Str("hi there") }

FreshChat(th) ==
  [history |-> <<>>, chat_state |-> [count |-> 0, threshold |-> th, buffer |-> <<>>]]

InitBatch ==
  /\ RouteIdle
  /\ sbOn \in BOOLEAN
  /\ sbState = [u \in { BatchUser } |-> NULL]
  /\ sbHist = [u \in { BatchUser } |-> <<>>]
  /\ qscores = [u \in StabKeys |-> NULL]
  /\ req = [r \in Slots |-> IdleReq]
  /\ posts = 0
  /\ ret = NoRet
  /\ \E th \in Thresholds :
       /\ arg = [op |-> "batch", threshold |-> th]
       /\ file = [k \in { memoryPath(BatchUser) } |-> FreshChat(th)]

NextBatch ==
  \/ DoChatPost({ 1 }, { BatchUser }, BatchChat, MaxSeqPosts)
  \/ DoChatLoad({ 1 }, Working)
  \/ DoChatSave({ 1 }, Working)
  \/ DoChatUpsert({ 1 }, Working)
  \/ DoFlushLoad({ 1 }, Working)
  \/ DoFlushSave({ 1 }, Working)
  \/ DoFlushInsert({ 1 }, Working)
  \/ DoFlushUpsert({ 1 }, Working)

SpecBatch == InitBatch /\ [][NextBatch]_vars

(***************************************************************************)
(* SpecEma: ema over all pairs of scores                                   *)
(***************************************************************************)
Scores == 100..600

InitEma ==
  /\ RouteIdle
  /\ file = [k \in FileKeys |-> NoFile]
  /\ sbOn = FALSE
  /\ StoresInit
  /\ arg \in { [op |-> "ema", current |-> c, last |-> l] :
                 c \in Scores, l \in Scores \cup { NullNum } }
  /\ ret = NoRet

NextEma == Smooth

SpecEma == InitEma /\ [][NextEma]_vars

(***************************************************************************)
(* SpecScore: calculateQScore over the feature inputs                      *)
(***************************************************************************)
InitScore ==
  /\ RouteIdle
  /\ file = [k \in FileKeys |-> NoFile]
  /\ sbOn = FALSE
  /\ StoresInit
  /\ arg \in { [op |-> "score", f |-> f] : f \in FeatureInputs }
  /\ ret = NoRet

NextScore == Score

SpecScore == InitScore /\ [][NextScore]_vars

(***************************************************************************)
(* SpecRange: the range classifications over the scores of the scale, the  *)
(* scores within Margin of it on either side, and NaN                      *)
(***************************************************************************)
RangeInputs == ((100 - Margin)..(600 + Margin)) \cup { NaN }

InitRange ==
  /\ RouteIdle
  /\ file = [k \in FileKeys |-> NoFile]
  /\ sbOn = FALSE
  /\ StoresInit
  /\ arg \in { [op |-> "range", q |-> q] : q \in RangeInputs }
  /\ ret = NoRet

NextRange == Classify

SpecRange == InitRange /\ [][NextRange]_vars

(***************************************************************************)
(* SpecStreak: streakDirection over the windows of at most MaxWindow       *)
(* scores                                                                  *)
(***************************************************************************)
WindowScores == { 100, 150, 200 }

Windows == UNION { [1..n -> WindowScores] : n \in 0..MaxWindow }

InitStreak ==
  /\ RouteIdle
  /\ file = [k \in FileKeys |-> NoFile]
  /\ sbOn = FALSE
  /\ StoresInit
  /\ arg \in { [op |-> "streak", scores |-> w] : w \in Windows }
  /\ ret = NoRet

NextStreak == Streak

SpecStreak == InitStreak /\ [][NextStreak]_vars

(***************************************************************************)
(* SpecAdjust: the stability adjustment for every tone and stability       *)
(***************************************************************************)
InitAdjust ==
  /\ RouteIdle
  /\ file = [k \in FileKeys |-> NoFile]
  /\ sbOn = FALSE
  /\ StoresInit
  /\ arg \in { [op |-> "adjust", tone |-> t, stability |-> st] :
                 t \in ToneSet, st \in 0..100 }
  /\ ret = NoRet

NextAdjust == Adjust

SpecAdjust == InitAdjust /\ [][NextAdjust]_vars

(***************************************************************************)
(* SpecTone: analyzeTone over every tuple of keyword totals up to          *)
(* MaxTotal, without and with the punctuation and capitals adjustments     *)
(***************************************************************************)
ToneInputs ==
  { Features(kw, exclam, 0, caps, 0, 35, 0, 0) :
      kw \in [ToneSet -> 0..MaxTotal], exclam \in { 0, 2 }, caps \in { 0, 13 } }

InitTone ==
  /\ RouteIdle
  /\ file = [k \in FileKeys |-> NoFile]
  /\ sbOn = FALSE
  /\ StoresInit
  /\ arg \in { [op |-> "score", f |-> f] : f \in ToneInputs }
  /\ ret = NoRet

NextTone == Score

SpecTone == InitTone /\ [][NextTone]_vars

(***************************************************************************)
(* SpecStab: stabilizing POSTs of one user, for a raw score in each band   *)
(* and every stored score                                                  *)
(***************************************************************************)
StabUser == UB

\* bodies whose raw scores are 175, 260, 322, 475 and NaN
StabBandInputs ==
  { Arr(<< Str("I am so anxious and scared, panic!!") >>),
    Arr(<< Str("hi there"), Str("I am so anxious and scared, panic!!") >>),
    Arr(<< Str("hi there"), Str("I realized I had to go all in"),
           Str("I am so anxious and scared, panic!!") >>),
    Arr(<< Str("calm and confident") >>),
    Missing }

\* a row of the qscores table that holds score q
StoredResult(q) == [qScore |-> q, range |-> bandOf(q), archetype |-> rangeMap[bandOf(q)]]

InitStab ==
  /\ RouteIdle
  /\ file = [k \in FileKeys |-> NoFile]
  /\ sbOn = FALSE
  /\ sbState = [u \in SbUsers |-> NULL]
  /\ sbHist = [u \in SbUsers |-> <<>>]
  /\ req = [r \in Slots |-> IdleReq]
  /\ posts = 0
  /\ arg = NoArg
  /\ ret = NoRet
  /\ \E stored \in { NULL } \cup { StoredResult(q) : q \in 150..550 } :
       qscores = [u \in StabKeys |-> IF u = getUserId(StabUser) THEN stored ELSE NULL]

NextStab ==
  \/ DoStabPost({ 1 }, { StabUser }, StabBandInputs, MaxStabPosts)
  \/ DoStabFetch({ 1 }, Working)
  \/ DoStabStore({ 1 }, Working)

SpecStab == InitStab /\ [][NextStab]_vars

(***************************************************************************)
(* SpecUnique: normalizedUnique over the sequences of at most MaxLines     *)
(* texts                                                                   *)
(***************************************************************************)
Lines == UNION { [1..n -> Strings] : n \in 0..MaxLines }

InitUnique ==
  /\ RouteIdle
  /\ file = [k \in FileKeys |-> NoFile]
  /\ sbOn = FALSE
  /\ StoresInit
  /\ arg \in { [op |-> "unique", msgs |-> l] : l \in Lines }
  /\ ret = NoRet

NextUnique == Unique

SpecUnique == InitUnique /\ [][NextUnique]_vars

(***************************************************************************)
(* SpecTwice: answers POSTs of two users in two slots, so that two         *)
(* responses can be compared                                               *)
(***************************************************************************)
TwiceUsers == { UB, <<>> }

TwiceAnswers ==
  { Arr(<< Str("calm and confident") >>),
    Arr(<< Str("I am so anxious and scared, panic!!"), Str("   ") >>) }

InitTwice == Init

NextTwice ==
  \/ DoAnswersPost(Slots, TwiceUsers, TwiceAnswers, MaxTwicePosts)
  \/ DoAnswersInsert(Slots, Working)
  \/ DoAnswersUpsert(Slots, Working)

SpecTwice == InitTwice /\ [][NextTwice]_vars

(***************************************************************************)
(* SpecForm: answers POSTs through the route and straight to the handler,  *)
(* where the backend may be out of reach and every store call may fail     *)
(***************************************************************************)
FormUsers == { <<>>, UB }

FormInputs ==
  { Arr(<< Str("calm and confident") >>),
    Arr(<< Str("I am so anxious and scared, panic!!"), Str("   ") >>),
    Arr(<< Str("") >>), Arr(<<>>), Arr(<< Num(42) >>), Missing }

InitForm == Init

\* the step of the handler's answers branch that AnswersUpsert is
HandlerUpsert(S, OK) ==
  \E r \in S, okFile \in OK, okSb \in OK :
     req[r].kind = "answers" /\ AnswersUpsert(r, okFile, okSb)

NextForm ==
  \/ DoFormPost({ 1 }, FormUsers, FormInputs, MaxFormPosts)
  \/ DoProxyCall({ 1 }, Backend)
  \/ DoFormReturn({ 1 }, BOOLEAN)
  \/ DoAnswersPost({ 1 }, FormUsers, FormInputs, MaxFormPosts)
  \/ DoAnswersInsert({ 1 }, BOOLEAN)
  \/ HandlerUpsert({ 1 }, BOOLEAN)

SpecForm == InitForm /\ [][NextForm]_vars

(***************************************************************************)
(* SpecLock: calls of withUserLock for two user ids and without a user id, *)
(* where fn may return or throw.  SpecLockFair adds that a call whose      *)
(* await is over goes on and that every fn that runs settles.              *)
(***************************************************************************)
LockCallers == LockIds \cup { NoUserId }

InitRoute ==
  /\ RouteIdle
  /\ file = [k \in FileKeys |-> NoFile]
  /\ sbOn = FALSE
  /\ StoresInit
  /\ arg = NoArg
  /\ ret = NoRet

InitLock == InitRoute

NextLock ==
  \/ DoWithUserLock(LockCallers, MaxCalls)
  \/ DoLockResume
  \/ DoFnSettle(Outcomes)

SpecLock == InitLock /\ [][NextLock]_vars

SpecLockFair ==
  /\ SpecLock
  /\ \A k \in 1..MaxCalls : WF_vars(LockResume(k))
  /\ \A k \in 1..MaxCalls : WF_vars(\E o \in Outcomes : FnSettle(k, o))

(***************************************************************************)
(* SpecEmpty: the three scoring entry points, called for one user without  *)
(* a stored score, with requests that hold no message, only blank          *)
(* messages, or one message                                                *)
(***************************************************************************)
EmptyLists == { << >>, << "" >>, << "   " >>, << "", "   " >>, << "hi there" >> }

EmptyBodies ==
  { Missing, Arr(<< >>), Arr(<< Str("") >>), Arr(<< Str("   "), Str("") >>),
    Arr(<< Str("hi there") >>) }

InitEmpty ==
  /\ RouteIdle
  /\ file = [k \in FileKeys |-> NoFile]
  /\ sbOn = FALSE
  /\ StoresInit
  /\ ret = NoRet
  /\ \E m \in EmptyLists : arg = [op |-> "result", messages |-> m]

NextEmpty ==
  \/ Result
  \/ DoRubricPost({ 1 }, { StabUser }, EmptyBodies, MaxEmptyPosts)
  \/ DoRubricModel({ 1 }, ModelResults \cup { Threw })
  \/ DoRubricStore({ 1 }, Working)
  \/ DoStabPost({ 1 }, { StabUser }, EmptyBodies, MaxEmptyPosts)
  \/ DoStabFetch({ 1 }, Working)
  \/ DoStabStore({ 1 }, Working)

SpecEmpty == InitEmpty /\ [][NextEmpty]_vars

(***************************************************************************)
(* SpecChatState: the chat events of one user without memory, one at a     *)
(* time, the store working, with and without Supabase; a blank message is  *)
(* among the events                                                        *)
(***************************************************************************)
StateChat == BatchChat \cup { Str("   ") }

InitChatState ==
  /\ RouteIdle
  /\ sbOn \in BOOLEAN
  /\ file = [k \in { memoryPath(BatchUser) } |-> NoFile]
  /\ sbState = [u \in { BatchUser } |-> NULL]
  /\ sbHist = [u \in { BatchUser } |-> <<>>]
  /\ qscores = [u \in StabKeys |-> NULL]
  /\ req = [r \in Slots |-> IdleReq]
  /\ posts = 0
  /\ arg = NoArg
  /\ ret = NoRet

NextChatState ==
  \/ DoChatPost({ 1 }, { BatchUser }, StateChat, MaxStatePosts)
  \/ DoChatLoad({ 1 }, Working)
  \/ DoChatSave({ 1 }, Working)
  \/ DoChatUpsert({ 1 }, Working)
  \/ DoFlushLoad({ 1 }, Working)
  \/ DoFlushSave({ 1 }, Working)
  \/ DoFlushInsert({ 1 }, Working)
  \/ DoFlushUpsert({ 1 }, Working)

SpecChatState == InitChatState /\ [][NextChatState]_vars

(***************************************************************************)
(* SpecConverge: stabilizing POSTs of one user whose quantized score is    *)
(* the midpoint arg.m every time (the body arg.body), from every stored    *)
(* score in 100..600.                                                      *)
(* SpecConvergeFair adds that the user goes on submitting and that every   *)
(* request is answered.                                                    *)
(***************************************************************************)
\* the bodies of StabBandInputs whose quantized score is m
ConvergeBodies(m) ==
  { a \in StabBandInputs :
      quantize(computeQScore(normalizedUnique(normalizeToStrings(a))).qScore) = m }

InitConverge ==
  /\ RouteIdle
  /\ file = [k \in FileKeys |-> NoFile]
  /\ sbOn = FALSE
  /\ sbState = [u \in SbUsers |-> NULL]
  /\ sbHist = [u \in SbUsers |-> <<>>]
  /\ req = [r \in Slots |-> IdleReq]
  /\ posts = 0
  /\ ret = NoRet
  /\ \E m \in Midpoints : \E a \in ConvergeBodies(m) :
       arg = [op |-> "converge", m |-> m, body |-> a]
  /\ \E q \in Scores :
       qscores = [u \in StabKeys |-> IF u = getUserId(StabUser) THEN StoredResult(q) ELSE NULL]

NextConverge ==
  \/ DoStabPost({ 1 }, { StabUser }, { arg.body }, MaxConvergePosts)
  \/ DoStabFetch({ 1 }, Working)
  \/ DoStabStore({ 1 }, Working)

SpecConverge == InitConverge /\ [][NextConverge]_vars

SpecConvergeFair ==
  /\ SpecConverge
  /\ WF_vars(DoStabPost({ 1 }, { StabUser }, StabBandInputs, MaxConvergePosts))
  /\ WF_vars(DoStabFetch({ 1 }, Working))
  /\ WF_vars(DoStabStore({ 1 }, Working))

(***************************************************************************)
(* SpecKeys: one chat request at a time, with 0 to KeySlots keys           *)
(* configured, where every model call may succeed or fail with any of the  *)
(* codes, early or past the time cap of the key                            *)
(***************************************************************************)
ChatBody(userId, message) == [json |-> TRUE, userId |-> userId, message |-> message]

KeyBodies == { ChatBody(NoUserId, "hi there"), ChatBody("ann", "hi there") }

NextKeys ==
  \/ DoChatRoutePost({ 1 }, { TRUE }, { "ip1" }, 0..KeySlots, KeyBodies, MaxKeyPosts)
  \/ DoChatState({ 1 }, Working)
  \/ DoChatLock({ 1 })
  \/ DoChatModel({ 1 }, Codes \cup { 200 }, BOOLEAN)
  \/ DoChatMark({ 1 }, Working)
  \/ DoChatSummary({ 1 }, Working)

SpecKeys == InitRoute /\ [][NextKeys]_vars

(***************************************************************************)
(* SpecThrottle: chat requests of two IPs, one at a time, while time       *)
(* passes in steps of 30000 and 30001 ms; one key, and the model answers   *)
(***************************************************************************)
TickSteps == { 30000, 30001 }

ThrottleBodies == { ChatBody(NoUserId, "hi there") }

NextThrottle ==
  \/ DoChatRoutePost({ 1 }, { TRUE }, Ips, { 1 }, ThrottleBodies, MaxThrottlePosts)
  \/ DoChatModel({ 1 }, { 200 }, { FALSE })
  \/ DoTick(TickSteps, MaxNow)

SpecThrottle == InitRoute /\ [][NextThrottle]_vars

(***************************************************************************)
(* SpecGate: /api/qscore requests of a named and of an anonymous user with *)
(* histories of 0 to MaxTurns user turns in any order, a single message    *)
(* or nothing, where the analysis may throw                                *)
(***************************************************************************)
Histories ==
  { NoHistory } \cup
  { [given |-> TRUE, user |-> u, assistant |-> 0] : u \in 0..MaxTurns } \cup
  { [given |-> TRUE, user |-> 0, assistant |-> 1] }

NextGate ==
  \E id \in { "ann", NoUserId }, h \in Histories, m \in { "", "hi there" }, ok \in BOOLEAN :
    QscorePost(id, h, m, ok)

SpecGate == InitRoute /\ [][NextGate]_vars

(***************************************************************************)
(* SpecPrompt: chat requests of one user in two slots, so that two of them *)
(* can be in flight together; one key, a model that answers or fails with  *)
(* 500, and a user_state table that works                                  *)
(***************************************************************************)
PromptBodies == { ChatBody("ann", "hi there") }

NextPrompt ==
  \/ DoChatRoutePost(Slots, { TRUE }, { "ip1" }, { 1 }, PromptBodies, MaxPromptPosts)
  \/ DoChatState(Slots, { TRUE })
  \/ DoChatLock(Slots)
  \/ DoChatModel(Slots, { 200, 500 }, { FALSE })
  \/ DoChatMark(Slots, { TRUE })
  \/ DoChatSummary(Slots, { TRUE })

SpecPrompt == InitRoute /\ [][NextPrompt]_vars

(***************************************************************************)
(* Properties                                                              *)
(***************************************************************************)
\* C1: for every message, whatever tone, stability and jitter it produces,
\* calculateQScore returns an integer q with 100 <= q <= 600
C1_ScoreInRange ==
  (arg.op = "score" /\ ret.done) =>
     /\ ret.stability \in 0..100
     /\ ret.jitter \in (0 - 15)..15
     /\ ret.qscore \in 100..600

\* an anxious message of stability 0 and jitter -15 has been scored
C1_Witness ==
  /\ arg.op = "score" /\ ret.done
  /\ ret.tone = "anxious" /\ ret.stability = 0 /\ ret.jitter = 0 - 15

(***************************************************************************)
(* Chat batching                                                           *)
(***************************************************************************)
\* the messages "hi there" of n chat events
Batch(n) == [i \in 1..n |-> "hi there"]

\* C2: with a stored threshold T and an empty buffer, each of the first T - 1
\* chat events is answered 202 "queued" with the running count and leaves
\* the persisted chat state at that count with the messages buffered; the
\* T-th event is answered 200 with the score of the T messages joined, and
\* leaves count 0, an empty buffer and a new threshold in 15..20; the events
\* after it count from 1 again
C2_QueuedThenScored ==
  (arg.op = "batch" /\ req[1].pc = "done") =>
     LET T == arg.threshold
         cs == persisted(BatchUser).chat_state
         resp == req[1].resp
     IN /\ posts < T =>
             /\ resp.status = 202
             /\ resp.body = [status |-> "queued", count |-> posts, threshold |-> T]
             /\ cs = [count |-> posts, threshold |-> T, buffer |-> Batch(posts)]
        /\ posts = T =>
             /\ resp.status = 200
             /\ req[1].combined = Batch(T)
             /\ resp.body = computeSummary(Batch(T), NULL)
             /\ cs.count = 0 /\ cs.buffer = <<>> /\ cs.threshold \in 15..20
        /\ posts > T =>
             /\ resp.status = 202
             /\ resp.body.count = posts - T
             /\ cs.count = posts - T /\ cs.buffer = Batch(posts - T)

\* the 17th event of a user whose threshold is 17 has been scored
C2_Witness ==
  /\ arg.op = "batch" /\ arg.threshold = 17
  /\ posts = 17 /\ req[1].pc = "done" /\ req[1].resp.status = 200
  /\ persisted(BatchUser).chat_state.count = 0

(***************************************************************************)
(* Concurrent events of one user                                           *)
(***************************************************************************)
\* the last n entries of a sequence
Latest(s, n) == SubSeq(s, Len(s) - n + 1, Len(s))

\* both slots have answered one chat event each
BothChatDone ==
  /\ posts = 2
  /\ \A r \in Slots : req[r].pc = "done" /\ req[r].kind = "chat"
                      /\ req[r].resp.status \in { 200, 202 }

\* request x was queued, then request y was handled, on the final chat state cs
ChatInOrder(x, y, cs) ==
  /\ x.resp.status = 202
  /\ IF y.resp.status = 202
     THEN /\ y.count = x.count + 1
          /\ cs.count = y.count /\ Len(cs.buffer) = y.count
          /\ Latest(cs.buffer, 2) = <<x.message, y.message>>
     ELSE /\ y.count = x.count + 1
          /\ Latest(y.combined, 2) = <<x.message, y.message>>
          /\ cs.count = 0 /\ cs.buffer = <<>>

\* request x flushed the buffer, then request y was queued
ChatAfterFlush(x, y, cs) ==
  /\ x.resp.status = 200 /\ y.resp.status = 202
  /\ Latest(x.combined, 1) = <<x.message>>
  /\ y.count = 1 /\ cs.count = 1 /\ cs.buffer = <<y.message>>

\* C3: two chat events of one user handled concurrently leave the chat state
\* as if they had been handled one after the other: both messages buffered
\* and the count two higher, or one of them consumed by a flush; no
\* increment and no buffered message is lost
C3_ChatEventsSerialised ==
  BothChatDone =>
     LET cs == persisted(UB).chat_state
     IN \/ ChatInOrder(req[1], req[2], cs)
        \/ ChatInOrder(req[2], req[1], cs)
        \/ ChatAfterFlush(req[1], req[2], cs)
        \/ ChatAfterFlush(req[2], req[1], cs)

\* C4: two stabilizing POSTs of one user handled concurrently store the
\* score that handling them one after the other stores: the second smooths
\* against the score the first stored, and its result is the stored one
C4_StabilizedSerialised ==
  (/\ posts = 2
   /\ \A r \in Slots : req[r].pc = "done" /\ req[r].kind = "stab"
                       /\ req[r].resp.status = 200) =>
     \E x, y \in Slots :
        /\ x # y
        /\ req[x].previous = NullNum
        /\ req[y].previous = req[x].out.qScore
        /\ fetchResult(req[y].user, TRUE) = req[y].out

(***************************************************************************)
(* History and trend of a scoring event                                    *)
(***************************************************************************)
\* the history kept for a user: the rows of qscore_history when Supabase
\* is configured, the history of the memory otherwise
storedHistory(user) == IF sbOn THEN sbHist[user] ELSE persisted(user).history

\* request q is a scoring event that has been answered 200
Scored(q) == q.pc = "done" /\ q.kind \in { "chat", "answers" } /\ q.resp.status = 200

\* the qscores of a history
qscoresOf(h) == [i \in 1..Len(h) |-> h[i].qscore]

\* C5: every scoring event (an answers POST or a chat flush) appends one
\* ScoreRecord, the one of the new score, to the user's persisted history
C5_ScoringAppendsRecord ==
  \A r \in Slots :
     Scored(req[r]) =>
        LET h == storedHistory(req[r].user)
        IN /\ Len(h) >= 1
           /\ h[Len(h)] = ScoreRecord(req[r].combined, req[r].out.qscore, req[r].out.tone)

\* C6: the trend figures of a scoring event are computed over the user's
\* stored history with the new score appended: with at least one stored
\* score the volatility is not null and main_qscore is the weighted average
\* of the stored scores and the new one
C6_TrendOverStoredHistory ==
  \A r \in Slots :
     LET h == storedHistory(req[r].user)
     IN (/\ Scored(req[r])
         /\ Len(h) >= 2
         /\ h[Len(h)] = ScoreRecord(req[r].combined, req[r].out.qscore, req[r].out.tone)) =>
           /\ req[r].resp.body.volatility # NullNum
           /\ req[r].resp.body.main_qscore =
                weightedMainQscore(LastN(qscoresOf(h), ROLLING_WINDOW))

(***************************************************************************)
(* EMA smoothing                                                           *)
(***************************************************************************)
\* C7: ema(current, last) lies between last and current and is no further
\* from last than current is; with no last score it is current
C7_EmaBetween ==
  (arg.op = "ema" /\ ret.done) =>
     IF arg.last = NullNum
     THEN ret.smoothed = arg.current
     ELSE /\ Abs(ret.smoothed - arg.last) <= Abs(arg.current - arg.last)
          /\ Min(arg.last, arg.current) <= ret.smoothed
          /\ ret.smoothed <= Max(arg.last, arg.current)

\* 0.7 * 600 + 0.3 * 150 = 465 has been computed
C7_Witness ==
  /\ arg.op = "ema" /\ arg.last = 600 /\ arg.current = 150
  /\ ret.done /\ ret.smoothed = 465

Malformed(q) ==
  \/ /\ q.kind = "chat"
     /\ (q.input.type # "string" \/ TEXT[q.input.value].key = "")
  \/ /\ q.kind = "answers"
     /\ (q.input.type # "array"
           \/ \E i \in 1..Len(q.input.items) : q.input.items[i].type # "string")

\* C9: a chat event whose message is not a non-blank string, or an answers
\* POST whose answers are not an array of strings, is answered 400 at once
\* and the persisted memory of every user is left as it was
C9_InvalidInputRejected ==
  [][\A r \in Slots :
        (req'[r] # req[r] /\ Malformed(req'[r])) =>
           /\ req'[r].pc = "done"
           /\ req'[r].resp.status = 400
           /\ UNCHANGED << file, sbState, sbHist, qscores >>]_vars

\* a blank chat message of a user with 14 queued messages has been rejected
C9_Witness ==
  /\ req[1].pc = "done" /\ req[1].kind = "chat" /\ req[1].resp.status = 400
  /\ req[1].input = Str("   ")
  /\ file[memoryPath(req[1].user)] = NearFlush

(***************************************************************************)
(* Isolation of users                                                      *)
(***************************************************************************)
\* C10: a request made under one user id never changes the memory read
\* under a different user id
C10_UsersIsolated ==
  [][\A r \in Slots : \A b \in Users :
        /\ (/\ req'[r] # req[r]
            /\ req'[r].kind \in { "chat", "answers" }
            /\ req'[r].uid # resolveUser(b)) =>
              /\ persisted(resolveUser(b))' = persisted(resolveUser(b))
              /\ sbHist'[resolveUser(b)] = sbHist[resolveUser(b)]
        /\ (/\ req'[r] # req[r]
            /\ req'[r].kind = "stab"
            /\ req'[r].uid # firstId(b)) =>
              fetchResult(getUserId(b), TRUE)' = fetchResult(getUserId(b), TRUE)]_vars

(***************************************************************************)
(* Range table and quantization                                            *)
(***************************************************************************)
\* the rows of the range table whose interval contains q
rowsOf(q) == { i \in 1..Len(RANGES) : RANGES[i].low <= q /\ q <= RANGES[i].high }

\* C11: every integer q in 100..600 lies in exactly one row of the range
\* table and assignRange(q) returns that row's band; the rows are
\* contiguous, start at 100 and end at 600
C11_RangesPartition ==
  (arg.op = "range" /\ ret.done /\ arg.q \in 100..600) =>
     /\ Cardinality(rowsOf(arg.q)) = 1
     /\ \A i \in rowsOf(arg.q) :
          ret.range = [name |-> RANGES[i].name, archetype |-> RANGES[i].archetype]
     /\ RANGES[1].low = 100 /\ RANGES[Len(RANGES)].high = 600
     /\ \A i \in 2..Len(RANGES) : RANGES[i].low = RANGES[i - 1].high + 1

\* the lowest score of the scale has been classified as Storm
C11_Witness ==
  /\ arg.op = "range" /\ arg.q = 100
  /\ ret.done /\ ret.range.name = "Storm"

\* C13: a score that no band contains (below 100, above 600 or NaN) is
\* classified as the lowest band, Storm, by assignRange, by the lookup of
\* computeQScore, by quantize and by the band re-derivation of the POST
C13_FallbackIsLowestBand ==
  (arg.op = "range" /\ ret.done /\ arg.q \notin 100..600) =>
     /\ ret.range.name = "Storm"
     /\ ret.engine = "Storm"
     /\ ret.quantized = 150
     /\ ret.band = "Storm"

\* C17: for every integer q in 100..600, quantize(q) is the midpoint of the
\* band that contains q, it lies in that band, and quantizing it again
\* leaves it as it is
C17_QuantizeMidpoint ==
  (arg.op = "range" /\ ret.done /\ arg.q \in 100..600) =>
     /\ ret.quantized \in { 150, 250, 350, 450, 550 }
     /\ rowsOf(ret.quantized) = rowsOf(arg.q)
     /\ \A i \in rowsOf(arg.q) : ret.quantized = RANGES[i].low + 50
     /\ ret.requantized = ret.quantized

\* the first score of Ground has been quantized to 250
C17_Witness ==
  /\ arg.op = "range" /\ arg.q = 200
  /\ ret.done /\ ret.quantized = 250 /\ ret.requantized = 250

(***************************************************************************)
(* Streak                                                                  *)
(***************************************************************************)
\* the direction of the adjacent pair that ends at index i
pairStep(w, i) ==
  IF w[i] > w[i - 1] THEN "up" ELSE IF w[i] < w[i - 1] THEN "down" ELSE "steady"

\* the number of consecutive adjacent pairs of direction dir that end at e
runLength(w, e, dir) ==
  CHOOSE k \in 1..(e - 1) :
     /\ \A j \in (e - k + 1)..e : pairStep(w, j) = dir
     /\ (e - k + 1 = 2 \/ pairStep(w, e - k) # dir)

\* the indices of the adjacent pairs that are not steady
moving(w) == { i \in 2..Len(w) : pairStep(w, i) # "steady" }

\* C12: for a window of at least 2 scores, streakDirection reports the run
\* that ends at the most recent score: the direction of the most recent
\* adjacent pair and the number of consecutive most recent pairs of that
\* direction; steady with length 1 when the most recent pair is equal
C12_StreakEndsAtLatest ==
  (arg.op = "streak" /\ ret.done /\ Len(arg.scores) >= 2) =>
     LET w == arg.scores
         dir == pairStep(w, Len(w))
     IN /\ ret.direction = dir
        /\ ret.length = IF dir = "steady" THEN 1 ELSE runLength(w, Len(w), dir)

\* C12, as the code has it: the steady pairs at the end of the window are
\* skipped; the run reported is the one that ends at the most recent pair
\* that is not steady (its direction, and the number of consecutive pairs
\* of that direction that end there); steady with length 1 only when every
\* pair of the window is steady
C12_StreakSkipsSteady ==
  (arg.op = "streak" /\ ret.done /\ Len(arg.scores) >= 2) =>
     LET w == arg.scores
     IN IF moving(w) = {}
        THEN ret.direction = "steady" /\ ret.length = 1
        ELSE LET e == CHOOSE i \in moving(w) : \A j \in moving(w) : j <= i
             IN /\ ret.direction = pairStep(w, e)
                /\ ret.length = runLength(w, e, pairStep(w, e))

\* a rise followed by an equal pair has been reported as up, length 1
C12_Witness ==
  /\ arg.op = "streak" /\ arg.scores = << 100, 150, 150 >>
  /\ ret.done /\ ret.direction = "up" /\ ret.length = 1

(***************************************************************************)
(* Stability adjustment                                                    *)
(***************************************************************************)
\* C14: for every stability s in 0..100 and every tone, the adjustment
\* added to the tone base is floor((s - 50) / 2), also below 50 (s = 49
\* gives -1)
C14_AdjustIsFloor ==
  (arg.op = "adjust" /\ ret.done) =>
     ret.adjusted - BASE_BY_TONE[arg.tone] = (arg.stability - 50) \div 2

\* C14, as the code has it: the adjustment is (s - 50) / 2 rounded toward
\* zero: floor((s - 50) / 2) from 50 up, -floor((50 - s) / 2) below 50
\* (s = 49 gives 0)
C14_AdjustIsTrunc ==
  (arg.op = "adjust" /\ ret.done) =>
     ret.adjusted - BASE_BY_TONE[arg.tone] =
        IF arg.stability >= 50
        THEN (arg.stability - 50) \div 2
        ELSE 0 - ((50 - arg.stability) \div 2)

\* stability 49 has left the base of an anxious message as it is
C14_Witness ==
  /\ arg.op = "adjust" /\ arg.tone = "anxious" /\ arg.stability = 49
  /\ ret.done /\ ret.adjusted = 150

(***************************************************************************)
(* Tone                                                                    *)
(***************************************************************************)
\* the position of a tone in the declaration order
orderOf(t) == CHOOSE i \in 1..Len(ToneOrder) : ToneOrder[i] = t

\* C15: analyzeTone returns neutral when the four totals are zero,
\* otherwise a category with the highest total, and among several with the
\* highest total the first in the order anxious, positive, high-energy,
\* neutral
C15_ToneTieBreak ==
  (arg.op = "score" /\ ret.done) =>
     LET total == toneScores(arg.f)
     IN IF \A t \in ToneSet : total[t] = 0
        THEN ret.tone = "neutral"
        ELSE /\ \A t \in ToneSet : total[t] <= total[ret.tone]
             /\ \A t \in ToneSet :
                  orderOf(t) < orderOf(ret.tone) => total[t] < total[ret.tone]

\* positive has won a tie with high-energy and neutral
C15_Witness ==
  /\ arg.op = "score" /\ ret.done
  /\ toneScores(arg.f) = [t \in ToneSet |-> IF t = "anxious" THEN 1 ELSE 2]
  /\ ret.tone = "positive"

(***************************************************************************)
(* Band of the stabilized score                                            *)
(***************************************************************************)
\* C16: in every response of the stabilizing POST the range and archetype
\* are those of the band that contains the returned, smoothed qScore,
\* whatever the raw score and the stored score are
C16_BandOfSmoothedScore ==
  \A r \in Slots :
     (req[r].pc = "done" /\ req[r].kind = "stab" /\ req[r].resp.status = 200) =>
        LET body == req[r].resp.body
        IN /\ rowsOf(body.qScore) # {}
           /\ \A i \in rowsOf(body.qScore) :
                /\ body.range = RANGES[i].name
                /\ body.archetype = RANGES[i].archetype

\* a raw score of Storm smoothed against a stored 450 has been answered
\* with 360 and the band Flow
C16_Witness ==
  /\ req[1].pc = "done" /\ req[1].kind = "stab" /\ req[1].resp.status = 200
  /\ computeQScore(req[1].combined).range = "Storm"
  /\ req[1].previous = 450
  /\ req[1].resp.body.qScore = 360 /\ req[1].resp.body.range = "Flow"

(***************************************************************************)
(* De-duplication                                                          *)
(***************************************************************************)
\* line i has the normalized form of no earlier line
firstOfItsForm(msgs, i) == \A j \in 1..(i - 1) : TEXT[msgs[j]].key # TEXT[msgs[i]].key

\* the lines that are the first of their normalized form, in their order
firstsOf(msgs) ==
  LET F[i \in 0..Len(msgs)] ==
        IF i = 0 THEN <<>>
        ELSE IF firstOfItsForm(msgs, i) THEN Append(F[i - 1], msgs[i]) ELSE F[i - 1]
  IN F[Len(msgs)]

\* C18: normalizedUnique returns exactly the input lines whose normalized
\* form is not that of an earlier line, with their original text and in
\* their order; no two lines it returns have the same normalized form
C18_FirstOfEachNormalForm ==
  (arg.op = "unique" /\ ret.done) =>
     /\ ret.out = firstsOf(arg.msgs)
     /\ \A i, j \in 1..Len(ret.out) : i # j => TEXT[ret.out[i]].key # TEXT[ret.out[j]].key

\* three spellings of one line have collapsed to the first of them
C18_Witness ==
  /\ arg.op = "unique" /\ arg.msgs = << "hi there", "HI THERE", "hi   there" >>
  /\ ret.done /\ ret.out = << "hi there" >>

ListOfStrings(a) ==
  a.type = "array" /\ \A i \in 1..Len(a.items) : a.items[i].type = "string"

\* C20: a POST whose body carries answers as a list of strings is answered
\* with a 2xx status, whatever the strings are and whether or not the store
\* and the backend behind the route can be reached
C20_AnswersAlwaysAccepted ==
  \A r \in Slots :
     (/\ req[r].pc = "done"
      /\ req[r].kind \in { "form", "answers" }
      /\ ListOfStrings(req[r].input)) =>
        req[r].resp.status \in 200..299

\* an empty string as the only answer has been accepted while the backend
\* was out of reach
C20_Witness ==
  /\ req[1].pc = "done" /\ req[1].kind = "form"
  /\ req[1].input = Arr(<< Str("") >>)
  /\ req[1].out = NULL
  /\ req[1].resp.status = 200

(***************************************************************************)
(* withUserLock                                                            *)
(***************************************************************************)
SameUser(j, k) == calls[j].userId # NoUserId /\ calls[j].userId = calls[k].userId

\* C21: the fn bodies of the calls of withUserLock with one userId run one
\* at a time and in call order: when the fn of a call has started, the fn of
\* every earlier call with that userId has settled.  A call without userId
\* never waits, and a call that waits on a pending promise waits for an
\* earlier call with its own userId that has not settled.
C21_OneAtATimeInOrder ==
  \A k \in 1..Len(calls) :
    /\ \A j \in 1..(k - 1) :
         (SameUser(j, k) /\ calls[k].ran) => calls[j].pc = "settled"
    /\ calls[k].userId = NoUserId => calls[k].ran
    /\ (calls[k].pc = "await" /\ lockPromise(calls, calls[k].prev) = "pending") =>
          \E j \in 1..(k - 1) : SameUser(j, k) /\ calls[j].pc # "settled"

\* three calls of one user: the first two have settled, one of them by
\* throwing, and the fn of the third runs while a call of another user and a
\* call without userId run theirs
C21_Witness ==
  /\ Len(calls) >= 4
  /\ \E i, j, k \in 1..Len(calls) :
       /\ i < j /\ SameUser(i, j)
       /\ calls[i].pc = "settled" /\ calls[j].pc = "fn" /\ calls[j].prev = i
       /\ calls[k].pc = "fn" /\ calls[k].userId \in LockIds /\ ~SameUser(j, k)
  /\ \E n \in 1..Len(calls) : calls[n].userId = NoUserId /\ calls[n].pc = "fn"

\* C22: when every fn that runs settles, every call of withUserLock runs its
\* fn, whether the earlier fns of its userId returned or threw; the promise
\* held in userLocks never rejects, and it is fulfilled once the calls of
\* that userId have settled
C22_EveryCallRuns ==
  /\ \A k \in 1..MaxCalls : [](Len(calls) >= k => <>(Len(calls) >= k /\ calls[k].ran))
  /\ [](\A u \in LockIds : lockPromise(calls, userLocks[u]) # "rejected")
  /\ [](\A u \in LockIds :
          (\A k \in 1..Len(calls) : calls[k].userId = u => calls[k].pc = "settled")
             => lockPromise(calls, userLocks[u]) = "fulfilled")

\* the fn of a call runs after the fn of the call before it threw
C22_Witness ==
  \E j, k \in 1..Len(calls) :
    /\ calls[k].prev = j /\ calls[j].outcome = "threw" /\ calls[k].ran
    /\ calls[k].pc = "fn"

(***************************************************************************)
(* Requests without a message                                              *)
(***************************************************************************)
NoMessage(a) ==
  a.type = "undefined" \/
  (a.type = "array" /\ \A i \in 1..Len(a.items) : IsBlank(a.items[i].value))

\* C23: a scoring request that holds no non-blank message is scored with the
\* default 250 / Ground / The Builder by QScoreResult, by the rubric POST
\* and by the stabilizing POST; for a user without a previous score that is
\* what the POST answers and stores
C23_EmptyRequestIsDefault ==
  /\ (arg.op = "result" /\ ret.done /\ \A i \in 1..Len(arg.messages) : IsBlank(arg.messages[i]))
        => ret.result = DefaultResult
  /\ \A r \in Slots :
       (/\ req[r].pc = "done" /\ req[r].kind \in { "rubric", "stab" }
        /\ req[r].resp.status = 200 /\ NoMessage(req[r].input)
        /\ req[r].previous = NullNum)
         => /\ req[r].resp.body = DefaultResult
            /\ req[r].kind = "rubric" => qscores[req[r].user] = DefaultResult
            /\ (req[r].kind = "stab" /\ posts = 1) => qscores[req[r].user] = DefaultResult

\* the rubric POST alone answers and stores the default
C23_RubricDefault ==
  \A r \in Slots :
    (req[r].pc = "done" /\ req[r].kind = "rubric" /\ req[r].resp.status = 200
     /\ NoMessage(req[r].input))
      => req[r].resp.body = DefaultResult /\ qscores[req[r].user] = DefaultResult

(***************************************************************************)
(* Persisted chat state                                                    *)
(***************************************************************************)
ChatStateOk(cs) ==
  /\ cs.threshold \in 15..20
  /\ 0 <= cs.count /\ cs.count < cs.threshold
  /\ cs.count = Len(cs.buffer)

\* C24: whatever chat events of a user have been handled, one at a time and
\* with the store working, the chat state in the memory file and in the
\* Supabase row has a threshold in 15..20, a count with 0 <= count <
\* threshold, and as many buffered messages as the count; once an event has
\* been accepted the chat state exists
C24_ChatStateInvariant ==
  /\ \A k \in DOMAIN file :
       (file[k] # NoFile /\ file[k].chat_state # NULL) => ChatStateOk(file[k].chat_state)
  /\ \A u \in DOMAIN sbState :
       (sbState[u] # NULL /\ sbState[u].chat_state # NULL) => ChatStateOk(sbState[u].chat_state)
  /\ (req[1].pc = "done" /\ req[1].resp.status \in { 200, 202 }) =>
        /\ persisted(BatchUser).chat_state # NULL
        /\ ChatStateOk(persisted(BatchUser).chat_state)

\* after the flush of a first batch, two events of the next batch are queued
C24_Witness ==
  /\ req[1].pc = "done" /\ req[1].resp.status = 202
  /\ Len(sbHist[BatchUser]) = 1
  /\ persisted(BatchUser).chat_state.count = 2
  /\ Len(persisted(BatchUser).chat_state.buffer) = 2

(***************************************************************************)
(* Repeated submissions of one midpoint                                    *)
(***************************************************************************)
storedScore == qscores[getUserId(StabUser)].qScore

bandOfMidpoint(m) ==
  CASE m = 150 -> "Storm" [] m = 250 -> "Ground" [] m = 350 -> "Flow"
    [] m = 450 -> "Gold" [] m = 550 -> "Sun"

\* C25: when every request of a user quantizes to the midpoint m, each
\* stored score lies between the score before it and m, nearer to m and
\* never beyond it; a stored score within 1 of m is never changed again;
\* and after finitely many requests the stored score stays within 1 of m,
\* in the band of m, which is the band every later response reports
C25_ConvergesToMidpoint ==
  /\ [][storedScore' # storedScore =>
          /\ Abs(storedScore' - arg.m) < Abs(storedScore - arg.m)
          /\ (storedScore' - arg.m) * (storedScore - arg.m) >= 0]_vars
  /\ [][Abs(storedScore - arg.m) <= 1 => storedScore' = storedScore]_vars
  /\ <>[](/\ Abs(storedScore - arg.m) <= 1
          /\ qscores[getUserId(StabUser)].range = bandOfMidpoint(arg.m)
          /\ req[1].pc = "done" => req[1].resp.body.range = bandOfMidpoint(arg.m))

\* under requests of midpoint 150 the stored score has come down to 151 and
\* the last request, which found 151, has left it there
C25_Witness ==
  /\ arg.op = "converge" /\ arg.m = 150
  /\ req[1].pc = "done" /\ req[1].previous = 151 /\ req[1].resp.body.qScore = 151
  /\ storedScore = 151
  /\ posts = MaxConvergePosts

(***************************************************************************)
(* Key failover of api/chat                                                *)
(***************************************************************************)
callsOf(s, k) == { j \in 1..Len(s) : s[j].key = k }

\* C26: the model calls of one chat request go through the keys in their
\* configured order; a key is called at most twice, and not again after an
\* error that is not retriable (401); a completion is the last call, and the
\* response then carries it with the index of its key; when the last key
\* has given up the response is an error with the status of the last
\* failure; there are at most 2 * (number of keys) calls
C26_KeyFailover ==
  \A r \in Slots :
    LET c == chat[r]
        s == c.sent
        n == Len(s)
    IN /\ n <= 2 * c.keys
       /\ n > 0 => s[1].key = 0
       /\ \A j \in 1..n :
            /\ s[j].key \in 0..(c.keys - 1)
            /\ Cardinality(callsOf(s, s[j].key)) <= 2
            /\ j < n =>
                 /\ s[j].status \notin { 0, 200 }
                 /\ s[j + 1].key \in { s[j].key, s[j].key + 1 }
                 /\ s[j].status = 401 => s[j + 1].key = s[j].key + 1
       /\ (c.pc \in { "mark", "summary" } \/ (c.pc = "done" /\ c.resp.status = 200)) =>
            /\ s[n].status = 200
            /\ c.i = s[n].key
            /\ c.pc = "done" => c.resp.key_index = s[n].key
       /\ (c.pc = "done" /\ n > 0 /\ c.resp.status # 200) =>
            /\ s[n].key = c.keys - 1
            /\ s[n].status # 200
            /\ c.resp.status = s[n].status
       /\ (c.pc = "done" /\ n > 0) => s[n].status # 0

\* a 401 on the first key, two failures on the second, and a completion at
\* the second attempt on the third key, which the response names
C26_Witness ==
  /\ chat[1].pc = "done" /\ chat[1].resp.status = 200
  /\ chat[1].resp.key_index = 2 /\ chat[1].resp.attempt = 2
  /\ Len(chat[1].sent) = 5
  /\ chat[1].sent[1].status = 401

\* every key has failed: 2 * KeySlots calls and the status of the last one
C26_AllKeysFail ==
  /\ chat[1].pc = "done" /\ chat[1].keys = KeySlots
  /\ Len(chat[1].sent) = 2 * KeySlots
  /\ chat[1].resp.status = 429 /\ chat[1].sent[2 * KeySlots - 1].status = 500

(***************************************************************************)
(* Throttle of api/chat                                                    *)
(***************************************************************************)
\* C27: a window of an IP starts with its first request, or with its first
\* request more than 60 s after the start of the window before; that
\* request is admitted.  The other requests of the window are counted from
\* the same start, a refused one included, and are admitted while the
\* window holds fewer than 20 requests: the 21st and later ones are answered
\* 429.  A request changes nothing for another IP.
C27_ThrottleWindow ==
  [][\A r \in Slots :
       (posts' = posts + 1 /\ chat'[r] # chat[r]) =>
          LET ip == chat'[r].ip
              h == hits[ip]
              opens == h = NoHit \/ now - h.ts > 60000
              admitted == chat'[r].resp.status # 429
          IN /\ admitted <=> (opens \/ h.count < 20)
             /\ hits'[ip].ts = IF opens THEN now ELSE h.ts
             /\ hits'[ip].count = IF opens THEN 1 ELSE h.count + 1
             /\ hits'[ip].count > 20 <=> ~admitted
             /\ \A other \in Ips \ { ip } : hits'[other] = hits[other]]_vars

\* 21 requests of ip1 in the window that started at 0, the last refused at
\* 60000 or earlier, and the request at 60001 has opened a window and is
\* answered
C27_Witness ==
  /\ posts = 22 /\ now = 60001
  /\ hits["ip1"] = [count |-> 1, ts |-> 60001]
  /\ hits["ip2"] = NoHit
  /\ chat[1].pc = "done" /\ chat[1].resp.status = 200

\* the 21st request of a window, at exactly 60 s after its start
C27_Refused ==
  /\ now = 60000
  /\ hits["ip1"] = [count |-> 21, ts |-> 0]
  /\ chat[1].pc = "done" /\ chat[1].resp.status = 429

(***************************************************************************)
(* Gate of api/qscore                                                      *)
(***************************************************************************)
\* C28: a response of /api/qscore carries a result only when the history has
\* at least 10 user turns and at least 10 more than the history of the
\* user's previous result (lastComputedUserTurns, 0 before the first); the
\* request then records its own count.  A request without a result leaves
\* every recorded count as it was, no recorded count ever decreases, and a
\* request changes nothing for another user.
C28_ResultEveryTenTurns ==
  [][LET u == ret'.userId
         t == ret'.uTurns
         last == lastComputedUserTurns[u]
     IN /\ ret'.result =>
             /\ ret'.status = 200 /\ ret'.allowed
             /\ t >= 10 /\ t - last >= 10
             /\ lastComputedUserTurns'[u] = t
        /\ ~ret'.result => lastComputedUserTurns' = lastComputedUserTurns
        /\ \A v \in TurnIds :
             /\ lastComputedUserTurns'[v] >= lastComputedUserTurns[v]
             /\ v # u => lastComputedUserTurns'[v] = lastComputedUserTurns[v]]_vars

\* the second result of a user, at 20 user turns after the one at 10
C28_Witness ==
  /\ ret.done /\ ret.op = "qscore" /\ ret.userId = "ann"
  /\ ret.result /\ ret.last = 10 /\ ret.uTurns = 20
  /\ lastComputedUserTurns["ann"] = 20

\* a request with 19 user turns after the result at 10 carries no result
C28_NotYet ==
  /\ ret.done /\ ret.op = "qscore" /\ ret.status = 200 /\ ~ret.result
  /\ ret.last = 10 /\ ret.uTurns = 19

(***************************************************************************)
(* The system prompt of api/chat                                           *)
(***************************************************************************)
\* request s has a model call that included the system prompt and succeeded
promptDelivered(s) ==
  \E j \in 1..Len(chat[s].sent) : chat[s].sent[j].system /\ chat[s].sent[j].status = 200

\* C29: once a model call of a user has succeeded with the system prompt
\* included, no model call of another request of that user includes the
\* system prompt, also when the two requests are in flight together.
C29_SystemPromptOnce ==
  [][\A s \in Slots :
       (/\ Len(chat'[s].sent) > Len(chat[s].sent)
        /\ chat'[s].sent[Len(chat'[s].sent)].system)
       => ~\E t \in Slots \ { s } :
             chat[t].userId = chat'[s].userId /\ promptDelivered(t)]_vars

\* both requests of the user have read system_sent before either ran
C29_BothReadBeforeLock ==
  /\ chat[1].pc = "model" /\ chat[2].pc = "lock"
  /\ chat[1].userId = "ann" /\ chat[2].userId = "ann"
  /\ ~chat[1].systemSent /\ ~chat[2].systemSent

\* a request that reads system_sent after the first one has marked it sends
\* no system prompt
C29_ReadAfterMark ==
  \A s \in Slots :
    (chat[s].pc \in { "lock", "model", "mark", "summary" } /\ chat[s].systemSent)
    => (user_state[chat[s].userId] # NULL /\ user_state[chat[s].userId].system_sent)

(***************************************************************************)
(* The score before the clamp                                              *)
(***************************************************************************)
\* base + Math.trunc((stability - 50) / 2) + jitter of the values returned
adjustedOf(r) == BASE_BY_TONE[r.tone] + Trunc(r.stability - 50, 2) + r.jitter

\* C30: for every message the score before the clamp, base of the tone +
\* adjustment of a stability in 0..100 + jitter in -15..15, lies in
\* 110..440; the clamp to 100..600 returns it unchanged, and the score is
\* never in the Sun band nor above 440.
C30_ClampChangesNothing ==
  (arg.op = "score" /\ ret.done) =>
     /\ BASE_BY_TONE[ret.tone] \in { 150, 250, 350, 400 }
     /\ Trunc(ret.stability - 50, 2) \in (0 - 25)..25
     /\ adjustedOf(ret) \in 110..440
     /\ ret.qscore = adjustedOf(ret)
     /\ ret.qscore <= 440
     /\ assignRange(ret.qscore).name # "Sun"

\* the lowest score: an anxious message of stability 0 and jitter -15
C30_Witness ==
  /\ arg.op = "score" /\ ret.done
  /\ adjustedOf(ret) = 110 /\ ret.qscore = 110

\* the highest score: a high-energy message of stability 100 and jitter 15
C30_Highest ==
  /\ arg.op = "score" /\ ret.done
  /\ ret.tone = "high-energy" /\ adjustedOf(ret) = 440 /\ ret.qscore = 440

====
